---------------------------- MODULE Spec2Model ----------------------------
(***************************************************************************)
(* Model of the rollback-safe streaming pipeline of scrolls:               *)
(*   - BufferBlocks, the slot-keyed block store with its rollback queue    *)
(*     (src/src/crosscut/historic.rs);                                     *)
(*   - the n2n chain-sync Source worker (src/src/sources/n2n/chainsync.rs);*)
(*   - the sled Enrich worker with the UTXO index and the two undo rings   *)
(*     (src/src/enrich/sled.rs).                                           *)
(* Three specifications share the variables: SpecBuffer drives the         *)
(* BufferBlocks API directly, SpecSource runs the Source worker against a  *)
(* chain node, SpecEnrich runs the Enrich worker on a stream of blocks.    *)
(***************************************************************************)
EXTENDS Integers, Sequences, FiniteSets, TLC

VARIABLES
    db,             \* BufferBlocks.db: sled tree, key (decimal string of the slot) -> block bytes
    db_depth,       \* BufferBlocks.db_depth
    queue,          \* BufferBlocks.queue: Vec of keys
    buf_last,       \* SpecBuffer: the last API call, its argument, its return value, and (history)
                    \* the blocks the enqueue_rollback_batch calls since the last insert_block
                    \* selected and no rollback_pop has taken yet
    ins_hist,       \* SpecBuffer: history of the slots inserted since the store was opened
    chain_buffer,   \* Source: chainsync::RollbackBuffer.points (the in-memory window)
    node_chain,     \* the chain as the node has announced it to the client so far
    output,         \* Source: the RawBlockPayload events sent on the output port
    tick,           \* Source: the response and the locals of the last work() call
    done,           \* Source: work() returned WorkOutcome::Done
    rollbacks,      \* number of RollBackward responses the node has sent
    owed,           \* history: blocks above the target of an out-of-scope rollback, not yet emitted as RollBack
    worker,         \* Source: Worker.finalize, whether Worker.chainsync and Worker.blockfetch are
                    \* Some, and how the last bootstrap() call ended
    utxo_db,        \* Enrich: Worker.db, the UTXO index
    produced_ring,  \* Enrich: Worker.produced_ring
    consumed_ring,  \* Enrich: Worker.consumed_ring
    applied,        \* history: blocks Enrich applied forward and has not rolled back, with the stores before each
    enrich_last,    \* Enrich: the last work() call: the payload received, the stores between
                    \* its steps and the payload sent downstream
    staging,        \* Enrich: the message the TwoPhaseInputPort holds until commit(), <<>> if none
    policy,         \* crosscut::policies::RuntimePolicy for decode errors: "skip" or "fail"
    rinput,         \* Reducers: the EnrichedBlockPayload messages waiting on the input port
    commands,       \* Reducers: the CRDTCommand stream sent on the output port
    rlast,          \* Reducers: the message of the last work() call and its result
    rpos,           \* number of messages handed to the reducer stage so far
    sink,           \* the sink's key-value state, as the commands of a reducer change it
    rtest           \* the block and context a reducer is run on, and the sink before it

bufVars == <<db, db_depth, queue>>
harnessVars == <<buf_last, ins_hist>>
sourceVars == <<chain_buffer, node_chain, output, tick, done, rollbacks, owed, worker>>
enrichVars == <<utxo_db, produced_ring, consumed_ring, applied, enrich_last, staging>>
reducerVars == <<policy, rinput, commands, rlast, rpos, sink, rtest>>
vars == <<db, db_depth, queue, buf_last, ins_hist, chain_buffer, node_chain, output,
          tick, done, rollbacks, owed, worker, utxo_db, produced_ring, consumed_ring,
          applied, enrich_last, staging, policy, rinput, commands, rlast, rpos, sink, rtest>>

(***************************************************************************)
(* Bounds of the model.                                                    *)
(***************************************************************************)
MinSlot == 8        \* lowest slot a block of the model has
MaxSlot == 11       \* highest slot: the keys "8", "9", "10", "11" cross a digit boundary
NForks == 2         \* competing block hashes per slot
MaxRollbacks == 1   \* RollBackward responses per run of the Source
BufferCap == 2      \* historic.rs:144 compares db_depth with 50000; scaled down
MinDepth == 2       \* Worker.min_depth (configuration)

Slots == MinSlot..MaxSlot
Hashes == 1..NForks

(***************************************************************************)
(* Generic helpers on sled trees (functions from keys to values).          *)
(***************************************************************************)
EmptyTree == [k \in {} |-> 0]

Put(t, k, v) == [x \in (DOMAIN t) \cup {k} |-> IF x = k THEN v ELSE t[x]]

Del(t, K) == [x \in (DOMAIN t) \ K |-> t[x]]

Range(s) == {s[i] : i \in 1..Len(s)}

(***************************************************************************)
(* Points and block bytes.  A block's bytes decode to its slot and hash.   *)
(***************************************************************************)
Origin == [slot |-> 0, hash |-> 0]

Points == [slot : Slots, hash : Hashes]

\* vec![]: the empty byte string
NoBytes == [slot |-> 0, hash |-> 0]

\* Point::slot_or_default
slot_or_default(point) == point.slot

\* blockfetch fetch_single: the bytes of the block at a point
fetch_single(point) == [slot |-> point.slot, hash |-> point.hash]

\* u64::to_string: the decimal digits of n, most significant first
RECURSIVE to_string(_)
to_string(n) == IF n < 10 THEN <<n>> ELSE Append(to_string(n \div 10), n % 10)

\* sled orders keys as byte strings
LexLess(a, b) ==
    \E i \in 1..(Len(a) + 1) :
        /\ i - 1 <= Len(b)
        /\ \A j \in 1..(i - 1) : a[j] = b[j]
        /\ \/ i = Len(a) + 1 /\ i <= Len(b)
           \/ i <= Len(a) /\ i <= Len(b) /\ a[i] < b[i]

LexMin(K) == CHOOSE k \in K : \A o \in K \ {k} : LexLess(k, o)

\* sled::Tree::get_gt
get_gt(t, k) ==
    LET above == {x \in DOMAIN t : LexLess(k, x)}
    IN  IF above = {} THEN {} ELSE {LexMin(above)}


(***************************************************************************)
(* BufferBlocks (src/src/crosscut/historic.rs).  The operations take and   *)
(* return the struct as a record [db, db_depth, queue]; an Option is a     *)
(* sequence of length 0 (None) or 1 (Some).                                *)
(***************************************************************************)
Buf(d, n, q) == [db |-> d, db_depth |-> n, queue |-> q]

\* BufferBlocks::open_db: db_depth is db.len(), the queue starts empty
open_db(d) == Buf(d, Cardinality(DOMAIN d), <<>>)

\* db_depth_up computes current + 1 and returns it; self.db_depth is not assigned
db_depth_up(b) == b

\* db_depth_down computes current - 1 and returns it; self.db_depth is not assigned
db_depth_down(b) == b

\* drop_old_block_if_buffer_max: [b |-> the struct afterwards, dropped |-> the return value]
drop_old_block_if_buffer_max(b) ==
    IF b.db_depth > BufferCap /\ DOMAIN b.db # {}
    THEN [b |-> Buf(Del(b.db, {LexMin(DOMAIN b.db)}), b.db_depth, b.queue), dropped |-> TRUE]
    ELSE [b |-> b, dropped |-> FALSE]

insert_block(b, point, block) ==
    LET key == to_string(slot_or_default(point))
        b1 == Buf(Put(b.db, key, block), b.db_depth, b.queue)
        b2 == db_depth_up(b1)
        r == drop_old_block_if_buffer_max(b2)
    IN  IF r.dropped THEN db_depth_down(r.b) ELSE r.b

get_block_at_point(b, point) ==
    LET key == to_string(slot_or_default(point))
    IN  IF key \in DOMAIN b.db THEN <<b.db[key]>> ELSE <<>>

\* the keys get_rollback_range visits with get_gt, starting above `last`
RECURSIVE gt_walk(_, _)
gt_walk(t, last) ==
    LET nxt == get_gt(t, last)
    IN  IF nxt = {} THEN <<>>
        ELSE LET k == CHOOSE x \in nxt : TRUE IN <<k>> \o gt_walk(t, k)

\* get_rollback_range(&self, from): [b |-> the struct afterwards, ret |-> the blocks returned]
get_rollback_range(b, from) ==
    LET slot == to_string(slot_or_default(from))
        current_block == IF slot \in DOMAIN b.db THEN b.db[slot] ELSE NoBytes
        walked == gt_walk(b.db, slot)
        blocks_to_roll_back == <<current_block>> \o [i \in 1..Len(walked) |-> b.db[walked[i]]]
        clear_blocks == Range(walked)
    IN  [b |-> Buf(Del(b.db, clear_blocks), b.db_depth, b.queue), ret |-> blocks_to_roll_back]

enqueue_rollback_batch(b, from) == get_rollback_range(b, from)

\* rollback_pop: Vec::pop takes the last key; ret is what db.remove returns
rollback_pop(b) ==
    IF b.queue = <<>>
    THEN [b |-> b, ret |-> <<>>]
    ELSE LET popped == b.queue[Len(b.queue)]
             rest == SubSeq(b.queue, 1, Len(b.queue) - 1)
         IN  [b |-> Buf(Del(b.db, {popped}), b.db_depth, rest),
              ret |-> IF popped \in DOMAIN b.db THEN <<b.db[popped]>> ELSE <<>>]

rollback_queue_len(b) == Len(b.queue)

\* BufferBlocks::tip_block is called by the Source and is not in historic.rs:
\* the bytes of the highest-slot entry (spec 4.2, tip())
tip_block(b) ==
    IF DOMAIN b.db = {} THEN <<>>
    ELSE LET top == CHOOSE k \in DOMAIN b.db :
                        \A o \in DOMAIN b.db : b.db[o].slot <= b.db[k].slot
         IN  <<b.db[top]>>

\* the keys of the entries of store t whose slot is above s
KeysAbove(t, s) == {k \in DOMAIN t : t[k].slot > s}

\* the keys K of store t in descending slot order
RECURSIVE DescBySlot(_, _)
DescBySlot(t, K) ==
    IF K = {} THEN <<>>
    ELSE LET top == CHOOSE k \in K : \A o \in K : t[o].slot <= t[k].slot
         IN  <<top>> \o DescBySlot(t, K \ {top})

ThisBuf == Buf(db, db_depth, queue)

SetBuf(b) == /\ db' = b.db
             /\ db_depth' = b.db_depth
             /\ queue' = b.queue

(***************************************************************************)
(* SpecBuffer: a client calling the BufferBlocks API in any order on a     *)
(* store opened empty or holding the blocks of an earlier run.             *)
(***************************************************************************)
BufMaxSlot == 13

\* enqueue_rollback_batch is not called while this many blocks are pending rollback
MaxPending == 2

BufSlots == MinSlot..BufMaxSlot

BufPoints == [slot : BufSlots, hash : Hashes]

Broken == <<0>>

StoreOf(S) == [k \in {to_string(s) : s \in S} |->
                  fetch_single([slot |-> CHOOSE s \in S : to_string(s) = k, hash |-> 1])]

\* highest slot of a stored block, 0 for an empty store
MaxStoredSlot(t) == IF DOMAIN t = {} THEN 0
                    ELSE CHOOSE m \in {t[k].slot : k \in DOMAIN t} :
                             \A k \in DOMAIN t : t[k].slot <= m

\* Worker::new (chainsync.rs:45-72): no client is installed, the window is empty
NewWorker(finalize) ==
    [finalize |-> finalize, chainsync |-> FALSE, blockfetch |-> FALSE,
     boot |-> "new", error |-> "none"]

SourceAtStart == /\ chain_buffer = <<>>
                 /\ node_chain = <<>>
                 /\ output = <<>>
                 /\ tick = [resp |-> "none"]
                 /\ done = FALSE
                 /\ rollbacks = 0
                 /\ owed = <<>>

IdleSource == /\ SourceAtStart
              /\ worker = NewWorker(<<>>)

IdleEnrich == /\ utxo_db = EmptyTree
              /\ produced_ring = EmptyTree
              /\ consumed_ring = EmptyTree
              /\ applied = <<>>
              /\ enrich_last = [op |-> "none"]
              /\ staging = <<>>

IdleReducers == /\ policy = "skip"
                /\ rinput = <<>>
                /\ commands = <<>>
                /\ rlast = [res |-> "none"]
                /\ rpos = 0
                /\ sink = EmptyTree
                /\ rtest = [phase |-> "none"]

IdleHarness == /\ buf_last = [op |-> "open", pending |-> <<>>]
               /\ ins_hist = <<>>

InitBuffer ==
    /\ \E S \in SUBSET BufSlots :
          /\ Cardinality(S) <= BufferCap + 1
          /\ \A s \in S : s <= MinSlot + BufferCap
          /\ db = StoreOf(S)
          /\ db_depth = open_db(StoreOf(S)).db_depth
          /\ queue = open_db(StoreOf(S)).queue
    /\ IdleHarness
    /\ IdleSource
    /\ IdleEnrich
    /\ IdleReducers

InsertBlock(point) ==
    /\ SetBuf(insert_block(ThisBuf, point, fetch_single(point)))
    /\ buf_last' = [op |-> "insert_block", point |-> point, ret |-> <<>>,
                    pending |-> <<>>]
    /\ ins_hist' = IF ins_hist # Broken /\ point.slot > MaxStoredSlot(db)
                   THEN Append(ins_hist, point.slot)
                   ELSE Broken
    /\ UNCHANGED <<sourceVars, enrichVars, reducerVars>>

EnqueueRollbackBatch(point) ==
    LET r == enqueue_rollback_batch(ThisBuf, point)
        desc == DescBySlot(db, KeysAbove(db, slot_or_default(point)))
    IN  /\ Len(buf_last.pending) < MaxPending
        /\ SetBuf(r.b)
        /\ buf_last' = [op |-> "enqueue_rollback_batch", point |-> point, ret |-> r.ret,
                        pending |-> buf_last.pending \o [i \in 1..Len(desc) |-> db[desc[i]]]]
        /\ ins_hist' = Broken
        /\ UNCHANGED <<sourceVars, enrichVars, reducerVars>>

RollbackPop ==
    LET r == rollback_pop(ThisBuf)
    IN  /\ SetBuf(r.b)
        /\ buf_last' = [op |-> "rollback_pop", point |-> Origin, ret |-> r.ret,
                        pending |-> IF buf_last.pending = <<>> THEN <<>>
                                    ELSE Tail(buf_last.pending)]
        /\ ins_hist' = Broken
        /\ UNCHANGED <<sourceVars, enrichVars, reducerVars>>

NextBuffer ==
    \/ \E point \in BufPoints : InsertBlock(point)
    \/ \E point \in BufPoints \cup {Origin} : EnqueueRollbackBatch(point)
    \/ RollbackPop

SpecBuffer == InitBuffer /\ [][NextBuffer]_vars


(***************************************************************************)
(* chainsync::RollbackBuffer, the in-memory window of the Source, as the   *)
(* Source uses it: a sequence of points, oldest first.                     *)
(***************************************************************************)
\* RollbackBuffer::roll_forward (chainsync.rs:93, :110)
roll_forward(points, point) == Append(points, point)

\* RollbackBuffer::pop_with_depth (chainsync.rs:214): the points deeper than min_depth leave the window
pop_with_depth(points, min_depth) ==
    IF Len(points) > min_depth
    THEN [ready |-> SubSeq(points, 1, Len(points) - min_depth),
          points |-> SubSeq(points, Len(points) - min_depth + 1, Len(points))]
    ELSE [ready |-> <<>>, points |-> points]

\* RollbackBuffer::roll_back (chainsync.rs:100): truncate to the point if the window
\* holds it, otherwise clear the window
roll_back(points, point) ==
    IF \E x \in 1..Len(points) : points[x] = point
    THEN LET x == CHOOSE y \in 1..Len(points) :
                      points[y] = point /\ \A z \in 1..(y - 1) : points[z] # point
         IN  [effect |-> "Handled", points |-> SubSeq(points, 1, x)]
    ELSE [effect |-> "OutOfScope", points |-> <<>>]

(***************************************************************************)
(* The Source worker (src/src/sources/n2n/chainsync.rs).                   *)
(***************************************************************************)
\* model::RawBlockPayload
RollForwardPayload(block) == [kind |-> "RollForward", block |-> block]

RollBackPayload(block) == [kind |-> "RollBack", block |-> block]

\* the finalize configuration, when there is one: stop once this slot has been emitted
FinalizeSlot == MinSlot + 1

\* crosscut::should_finalize is not in the sources: the target slot is reached (spec 4.1, step 6)
should_finalize(finalize, point, rollbacks_pending, started_rollback) ==
    /\ finalize # <<>>
    /\ slot_or_default(point) >= finalize[1]

\* the hash standing for a header whose bytes do not decode
Malformed == 0

\* to_traverse under the skip policy: TRUE when MultiEraHeader::decode succeeds
to_traverse(point) == point.hash # Malformed

\* Worker::on_roll_forward: the header decodes to its point, which enters the window;
\* a header that does not decode is skipped when the policy says so
on_roll_forward(points, point) ==
    IF to_traverse(point) THEN roll_forward(points, point) ELSE points

\* on_rollback without the Handled arm: every rollback is replayed from the BlockBuffer
on_rollback_always_replayed(points, b, point) ==
    LET e == enqueue_rollback_batch(b, point)
        tip == tip_block(e.b)
    IN  [points |-> IF tip # <<>>
                    THEN roll_forward(<<>>, [slot |-> tip[1].slot, hash |-> tip[1].hash])
                    ELSE <<>>,
         b |-> e.b,
         effect |-> roll_back(points, point).effect]

\* Worker::on_rollback: [points, b, effect]
on_rollback(points, b, point) ==
    LET r == roll_back(points, point)
    IN  IF r.effect = "Handled"
        THEN [points |-> r.points, b |-> b, effect |-> "Handled"]
        ELSE LET e == enqueue_rollback_batch(b, point)
                 tip == tip_block(e.b)
             IN  [points |-> IF tip # <<>>
                             THEN roll_forward(r.points,
                                      [slot |-> tip[1].slot, hash |-> tip[1].hash])
                             ELSE r.points,
                  b |-> e.b,
                  effect |-> "OutOfScope"]

\* the loop over ready not run, as on a tick that started a rollback
drain_ready_skipped(ready, st) == st

\* the loop over ready without the finalize check: every ready point is emitted
RECURSIVE drain_ready_ignoring_finalize(_, _)
drain_ready_ignoring_finalize(ready, st) ==
    IF ready = <<>> THEN st
    ELSE LET point == Head(ready)
             block == fetch_single(point)
             b1 == insert_block(st.b, point, block)
             out1 == Append(st.output, RollForwardPayload(block))
         IN  drain_ready_ignoring_finalize(Tail(ready),
                 [b |-> b1, output |-> out1, done |-> FALSE])

\* the loop `for point in ready` of work(): st is [b, output, done]
RECURSIVE drain_ready(_, _)
drain_ready(ready, st) ==
    IF ready = <<>> THEN st
    ELSE LET point == Head(ready)
             block == fetch_single(point)
             b1 == insert_block(st.b, point, block)
             out1 == Append(st.output, RollForwardPayload(block))
             depth == rollback_queue_len(b1)
         IN  IF should_finalize(worker.finalize, point, depth > 0, FALSE)
             THEN [b |-> b1, output |-> out1, done |-> TRUE]
             ELSE drain_ready(Tail(ready), [b |-> b1, output |-> out1, done |-> FALSE])

\* work() after request_next/await_next has handled the response:
\* [points, b, output, done, ready, started_rollback]
work_body(points, b, out) ==
    LET w == pop_with_depth(points, MinDepth)
        p == rollback_pop(b)
        started_rollback == p.ret # <<>>
        out1 == IF started_rollback THEN Append(out, RollBackPayload(p.ret[1])) ELSE out
    IN  IF started_rollback
        THEN [points |-> w.points, b |-> p.b, output |-> out1,
              done |-> should_finalize(worker.finalize, Origin,
                                       rollback_queue_len(p.b) > 0, TRUE),
              ready |-> w.ready, started_rollback |-> TRUE]
        ELSE LET d == drain_ready(w.ready, [b |-> p.b, output |-> out1, done |-> FALSE])
             IN  [points |-> w.points, b |-> d.b, output |-> d.output, done |-> d.done,
                  ready |-> w.ready, started_rollback |-> FALSE]

\* history: what is still owed downstream after this tick
OwedAfter(owed0, out0, out1) ==
    LET sent == SubSeq(out1, Len(out0) + 1, Len(out1))
    IN  IF owed0 # <<>> /\ sent # <<>> /\ sent[1] = RollBackPayload(Head(owed0))
        THEN Tail(owed0) ELSE owed0

LastSlot(chain) == IF chain = <<>> THEN 0 ELSE chain[Len(chain)].slot

\* the BlockBuffer is opened empty, or holding the blocks an earlier run left in it
InitSource ==
    /\ \E S \in {{}, MinSlot..(MinSlot + BufferCap)} :
          /\ db = StoreOf(S)
          /\ db_depth = open_db(StoreOf(S)).db_depth
          /\ queue = open_db(StoreOf(S)).queue
    /\ IdleHarness
    /\ SourceAtStart
    /\ \E finalize \in {<<>>, <<FinalizeSlot>>} : worker = NewWorker(finalize)
    /\ IdleEnrich
    /\ IdleReducers

\* the outcomes of Transport::setup and of utils::define_chainsync_start
TransportOutcomes == {"Ok", "Err"}

StartOutcomes == {"Err", "None", "Some"}

\* bootstrap with the chainsync client installed before the intersection is checked
bootstrap_installs_first(w, transport, start) ==
    IF transport = "Err" THEN [w EXCEPT !.boot = "retry", !.error = "Transport"]
    ELSE IF start = "Err"
    THEN [w EXCEPT !.boot = "retry", !.error = "define_chainsync_start"]
    ELSE IF start = "None"
    THEN [w EXCEPT !.chainsync = TRUE, !.boot = "panic", !.error = "IntersectNotFound"]
    ELSE [w EXCEPT !.chainsync = TRUE, !.blockfetch = TRUE,
                   !.boot = "ok", !.error = "none"]

\* Worker::bootstrap (chainsync.rs:185-205): or_retry()? returns a retryable error,
\* ok_or(Error::IntersectNotFound).or_panic()? returns a fatal one, and the two
\* clients are stored in self only after both
bootstrap(w, transport, start) ==
    IF transport = "Err" THEN [w EXCEPT !.boot = "retry", !.error = "Transport"]
    ELSE IF start = "Err"
    THEN [w EXCEPT !.boot = "retry", !.error = "define_chainsync_start"]
    ELSE IF start = "None"
    THEN [w EXCEPT !.boot = "panic", !.error = "IntersectNotFound"]
    ELSE [w EXCEPT !.chainsync = TRUE, !.blockfetch = TRUE,
                   !.boot = "ok", !.error = "none"]

\* the runtime calls bootstrap() before the first work() and again after a retryable error
Bootstrap(transport, start) ==
    /\ worker.boot \in {"new", "retry"}
    /\ worker' = bootstrap(worker, transport, start)
    /\ UNCHANGED <<chain_buffer, node_chain, output, tick, done, rollbacks, owed>>
    /\ UNCHANGED <<bufVars, harnessVars, enrichVars, reducerVars>>

\* the lowest slot the store t holds, as an Option
LowestStored(t) ==
    IF DOMAIN t = {} THEN <<>>
    ELSE <<CHOOSE m \in {t[k].slot : k \in DOMAIN t} : \A k \in DOMAIN t : m <= t[k].slot>>

\* tick' records the response, the locals of work() and its WorkOutcome, and as history
\* the blocks pending rollback when the drain step began (pending) and the lowest slot
\* the BlockBuffer held when the call began (lowest)
Finish(r, resp, point, effect, owed0) ==
    /\ chain_buffer' = r.points
    /\ SetBuf(r.b)
    /\ output' = r.output
    /\ done' = r.done
    /\ owed' = OwedAfter(owed0, output, r.output)
    /\ tick' = [resp |-> resp, point |-> point, effect |-> effect,
                ready |-> r.ready, started_rollback |-> r.started_rollback,
                cut |-> Len(r.points) + Len(r.ready) < Len(chain_buffer),
                pending |-> owed0,
                lowest |-> LowestStored(db),
                res |-> IF r.done THEN "Done" ELSE "Partial"]
    /\ UNCHANGED <<worker, harnessVars, enrichVars, reducerVars>>

\* work() when the node answers RollForward(header of point)
WorkRollForward(point) ==
    /\ worker.boot = "ok"
    /\ ~done
    /\ point.slot > LastSlot(node_chain)
    /\ node_chain' = Append(node_chain, point)
    /\ rollbacks' = rollbacks
    /\ Finish(work_body(on_roll_forward(chain_buffer, point), ThisBuf, output),
              "RollForward", point, "None", owed)

\* work() when the node answers RollForward with a header that does not decode
\* and the policy skips it
WorkRollForwardSkipped(point) ==
    /\ worker.boot = "ok"
    /\ ~done
    /\ point.slot > LastSlot(node_chain)
    /\ node_chain' = Append(node_chain, point)
    /\ rollbacks' = rollbacks
    /\ Finish(work_body(on_roll_forward(chain_buffer, point), ThisBuf, output),
              "RollForwardSkipped", point, "None", owed)

\* work() when the node answers RollBackward(point), a point of its chain or the origin
WorkRollBackward(point) ==
    /\ worker.boot = "ok"
    /\ ~done
    /\ rollbacks < MaxRollbacks
    /\ rollbacks' = rollbacks + 1
    /\ node_chain' = IF point = Origin THEN <<>>
                     ELSE SubSeq(node_chain, 1,
                              CHOOSE x \in 1..Len(node_chain) : node_chain[x] = point)
    /\ LET o == on_rollback(chain_buffer, ThisBuf, point)
           above == DescBySlot(db, KeysAbove(db, slot_or_default(point)))
           owed0 == IF o.effect = "OutOfScope"
                    THEN owed \o [i \in 1..Len(above) |-> db[above[i]]]
                    ELSE owed
       IN  Finish(work_body(o.points, o.b, output), "RollBackward", point, o.effect, owed0)

\* work() when the node answers Await
WorkAwait ==
    /\ worker.boot = "ok"
    /\ ~done
    /\ UNCHANGED <<node_chain, rollbacks>>
    /\ Finish(work_body(chain_buffer, ThisBuf, output), "Await", Origin, "None", owed)

NextSource ==
    \/ \E transport \in TransportOutcomes, start \in StartOutcomes : Bootstrap(transport, start)
    \/ \E point \in Points : WorkRollForward(point)
    \/ \E point \in [slot : Slots, hash : {Malformed}] : WorkRollForwardSkipped(point)
    \/ \E point \in Range(node_chain) \cup {Origin} : WorkRollBackward(point)
    \/ WorkAwait

SpecSource == InitSource /\ [][NextSource]_vars

(***************************************************************************)
(* The Enrich worker (src/src/enrich/sled.rs).  The three sled stores are  *)
(* the fields of a record e = [db, produced_ring, consumed_ring]; a store  *)
(* reference (&sled::Db) is the name of the field it points to.            *)
(***************************************************************************)
NTx == 5            \* transactions of the model's chain universe
MaxTxPerBlock == 2  \* transactions per block
PruneScanLimit == 1000000   \* sled.rs:168, the bound of the scan loop of prune_tree
PruneKeep == 500000         \* sled.rs:178 and :193

\* the UTXO key "{tx_hash}#{output_index}": the fixed-width hash, then the decimal index
Ref(tx, idx) == <<tx>> \o to_string(idx)

\* a reference to an output that no block of the model produces (a genesis UTXO)
GenesisRef == Ref(0, 0)

\* the transactions: the inputs each consumes and the number of outputs it produces
TxDef(tx) ==
    CASE tx = 1 -> [consumes |-> <<>>, produces |-> 3]
      [] tx = 2 -> [consumes |-> <<Ref(1, 0)>>, produces |-> 2]
      [] tx = 3 -> [consumes |-> <<Ref(1, 1), Ref(2, 0)>>, produces |-> 1]
      [] tx = 4 -> [consumes |-> <<GenesisRef, Ref(1, 2)>>, produces |-> 1]
      [] OTHER -> [consumes |-> <<Ref(1, 0)>>, produces |-> 1]

Txs == 1..NTx

\* MultiEraTx::produces / consumes as sets and sequences of keys
Produces(tx) == {Ref(tx, idx) : idx \in 0..(TxDef(tx).produces - 1)}

Consumes(tx) == Range(TxDef(tx).consumes)

\* SledTxValue(era, body) encoded: the era and the bytes of the output of that key
Era == 5

SledTxValue(key) == <<Era>> \o key

\* IVec::default(), the presence-only marker of the produced ring
EmptyIVec == <<>>

\* a block is the sequence of its transactions
BlockUniverse ==
    {b \in UNION {[1..n -> Txs] : n \in 1..MaxTxPerBlock} :
        \A x, y \in 1..Len(b) : x # y => b[x] # b[y]}

BlockProduces(block) == UNION {Produces(block[x]) : x \in 1..Len(block)}

BlockConsumes(block) == UNION {Consumes(block[x]) : x \in 1..Len(block)}

\* Worker::db_ref_main, db_ref_produced_ring, db_ref_consumed_ring (sled.rs:242-261)
db_ref_main == "db"

db_ref_produced_ring == "produced_ring"

db_ref_consumed_ring == "produced_ring"

\* sled::Batch applied to a tree: inserts is a tree of new values, removes a set of keys
apply_batch(t, inserts, removes) ==
    [k \in ((DOMAIN t) \cup (DOMAIN inserts)) \ removes |->
        IF k \in DOMAIN inserts THEN inserts[k] ELSE t[k]]

\* prune_tree: the scan restarts db.iter() on every turn, so it sees the first key
\* PruneScanLimit times; the first PruneKeep sightings are collected for removal
prune_tree(t) ==
    IF DOMAIN t = {} THEN t
    ELSE LET keys_to_drop == {LexMin(DOMAIN t)}
             above_count == PruneScanLimit - PruneKeep
         IN  IF above_count >= PruneKeep THEN Del(t, keys_to_drop) ELSE t

\* Worker::clean_dbs
clean_dbs(e) ==
    LET e1 == [e EXCEPT ![db_ref_produced_ring] = prune_tree(@)]
    IN  [e1 EXCEPT ![db_ref_consumed_ring] = prune_tree(@)]

\* Worker::insert_produced_utxos(db, produced_ring, txs)
insert_produced_utxos(e, dbr, ring, block) ==
    LET keys == BlockProduces(block)
        insert_batch == [k \in keys |-> SledTxValue(k)]
        rollback_insert_batch == [k \in keys |-> EmptyIVec]
        e1 == [e EXCEPT ![dbr] = apply_batch(@, insert_batch, {})]
    IN  [e1 EXCEPT ![ring] = apply_batch(@, rollback_insert_batch, {})]

\* Worker::remove_produced_utxos(db, produced_ring, txs)
remove_produced_utxos(e, dbr, ring, block) ==
    LET keys == BlockProduces(block)
        e1 == [e EXCEPT ![ring] = apply_batch(@, EmptyTree, keys)]
    IN  [e1 EXCEPT ![dbr] = apply_batch(@, EmptyTree, keys)]


\* a variant of remove_consumed_utxos that records an empty value for a key it does not find
remove_consumed_utxos_marks_missing(e, dbr, ring, block) ==
    LET keys == BlockConsumes(block)
        current_values_batch ==
            [k \in keys |-> IF k \in DOMAIN e[dbr] THEN e[dbr][k] ELSE EmptyIVec]
        e1 == [e EXCEPT ![dbr] = apply_batch(@, EmptyTree, keys)]
    IN  [e1 EXCEPT ![ring] = apply_batch(@, current_values_batch, {})]

\* a variant of replace_consumed_utxos that gives up at the first key without a ring entry
replace_consumed_utxos_stops_on_missing(e, dbr, ring, block) ==
    LET keys == BlockConsumes(block)
        found == IF keys \subseteq DOMAIN e[ring] THEN keys ELSE {}
        insert_batch == [k \in found |-> e[ring][k]]
        e1 == [e EXCEPT ![dbr] = apply_batch(@, insert_batch, {})]
    IN  [e1 EXCEPT ![ring] = apply_batch(@, EmptyTree, found)]

\* txs.iter().flat_map(|tx| tx.requires()): the references of a block, in order
RECURSIVE Required(_)
Required(block) ==
    IF block = <<>> THEN <<>>
    ELSE TxDef(Head(block)).consumes \o Required(Tail(block))

\* the orders in which the lookups of required.par_iter() can complete
LookupOrders(block) == Permutations(1..Len(Required(block)))

\* the order of a sequential run
InOrder(block) == [i \in 1..Len(Required(block)) |-> i]

\* fetch_referenced_utxo(db, utxo_ref): Some((key, value)) as <<key, value>>, None as <<>>
fetch_referenced_utxo(t, utxo_ref) ==
    IF utxo_ref \in DOMAIN t THEN <<utxo_ref, t[utxo_ref]>> ELSE <<>>

\* required.par_iter().map(fetch_referenced_utxo).collect(): the lookup order[n] is the
\* n-th to complete and fills the slot of its own reference; collect() returns when the
\* last one has
RECURSIVE par_collect(_, _, _, _)
par_collect(t, required, order, n) ==
    IF n = 0 THEN [i \in 1..Len(required) |-> <<>>]
    ELSE [par_collect(t, required, order, n - 1) EXCEPT
              ![order[n]] = fetch_referenced_utxo(t, required[order[n]])]

\* for m in matches?: ctx.import_ref_output(key, era, cbor) for every Some, in slot order
RECURSIVE import_matches(_)
import_matches(matches) ==
    IF matches = <<>> THEN EmptyTree
    ELSE LET m == matches[Len(matches)]
             ctx == import_matches(SubSeq(matches, 1, Len(matches) - 1))
         IN  IF m = <<>> THEN ctx ELSE Put(ctx, m[1], m[2])

\* Worker::par_fetch_referenced_utxos: the BlockContext, key -> value of every input found
par_fetch_referenced_utxos(e, dbr, block, order) ==
    import_matches(par_collect(e[dbr], Required(block), order, Len(Required(block))))

\* the increments of mismatches_counter in one par_fetch_referenced_utxos call
fetch_mismatches(e, dbr, block) ==
    Cardinality({i \in 1..Len(Required(block)) : Required(block)[i] \notin DOMAIN e[dbr]})

\* Worker::remove_consumed_utxos(db, consumed_ring, txs)
remove_consumed_utxos(e, dbr, ring, block) ==
    LET keys == BlockConsumes(block)
        current_values_batch == [k \in keys \cap DOMAIN e[dbr] |-> e[dbr][k]]
        e1 == [e EXCEPT ![dbr] = apply_batch(@, EmptyTree, keys)]
    IN  [e1 EXCEPT ![ring] = apply_batch(@, current_values_batch, {})]

\* Worker::replace_consumed_utxos(db, consumed_ring, txs)
replace_consumed_utxos(e, dbr, ring, block) ==
    LET keys == BlockConsumes(block)
        found == keys \cap DOMAIN e[ring]
        insert_batch == [k \in found |-> e[ring][k]]
        e1 == [e EXCEPT ![dbr] = apply_batch(@, insert_batch, {})]
    IN  [e1 EXCEPT ![ring] = apply_batch(@, EmptyTree, found)]

\* a RollForward arm that looks the references up after the consumed outputs are removed
work_roll_forward_fetch_after_remove(e, block, order) ==
    LET e1 == insert_produced_utxos(e, db_ref_main, db_ref_produced_ring, block)
        e2 == remove_consumed_utxos(e1, db_ref_main, db_ref_consumed_ring, block)
        ctx == par_fetch_referenced_utxos(e2, db_ref_main, block, order)
    IN  [e |-> clean_dbs(e2), ctx |-> ctx, fetched |-> e1, unpruned |-> e2,
         mismatches |-> fetch_mismatches(e1, db_ref_main, block)]

\* work() on RawBlockPayload::RollForward: [e |-> the stores, ctx |-> the context sent,
\* fetched |-> the stores the references are looked up in, unpruned |-> the stores
\* clean_dbs starts from, mismatches |-> the increments of mismatches_counter]
work_roll_forward(e, block, order) ==
    LET e1 == insert_produced_utxos(e, db_ref_main, db_ref_produced_ring, block)
        ctx == par_fetch_referenced_utxos(e1, db_ref_main, block, order)
        e2 == remove_consumed_utxos(e1, db_ref_main, db_ref_consumed_ring, block)
    IN  [e |-> clean_dbs(e2), ctx |-> ctx, fetched |-> e1, unpruned |-> e2,
         mismatches |-> fetch_mismatches(e1, db_ref_main, block)]

\* work() on RawBlockPayload::RollBack with a non-empty block: restored |-> the stores
\* replace_consumed_utxos starts from, unpruned |-> the stores clean_dbs starts from
work_roll_back(e, block) ==
    LET e1 == remove_produced_utxos(e, db_ref_main, db_ref_produced_ring, block)
        e2 == replace_consumed_utxos(e1, db_ref_main, db_ref_consumed_ring, block)
        ctx == par_fetch_referenced_utxos(e2, db_ref_main, block, InOrder(block))
    IN  [e |-> clean_dbs(e2), ctx |-> ctx, restored |-> e1, unpruned |-> e2,
         mismatches |-> fetch_mismatches(e2, db_ref_main, block)]

Stores == [db |-> utxo_db, produced_ring |-> produced_ring, consumed_ring |-> consumed_ring]

SetStores(e) == /\ utxo_db' = e.db
                /\ produced_ring' = e.produced_ring
                /\ consumed_ring' = e.consumed_ring

(***************************************************************************)
(* The chain the Enrich worker is fed: valid blocks, rolled back in the    *)
(* reverse order of their application.                                     *)
(***************************************************************************)
\* the unspent outputs after the transactions txs (a sequence) applied to the set u
RECURSIVE LedgerAfterTxs(_, _)
LedgerAfterTxs(u, txs) ==
    IF txs = <<>> THEN u
    ELSE LedgerAfterTxs((u \ Consumes(Head(txs))) \cup Produces(Head(txs)), Tail(txs))

\* the unspent outputs after the blocks of the history h
RECURSIVE Ledger(_)
Ledger(h) ==
    IF h = <<>> THEN {}
    ELSE LedgerAfterTxs(Ledger(SubSeq(h, 1, Len(h) - 1)), h[Len(h)].block)

AppliedTxs == UNION {Range(applied[x].block) : x \in 1..Len(applied)}

\* every input of the block is unspent when its transaction runs, or a genesis reference
RECURSIVE InputsAvailable(_, _)
InputsAvailable(u, txs) ==
    IF txs = <<>> THEN TRUE
    ELSE /\ Consumes(Head(txs)) \subseteq u \cup {GenesisRef}
         /\ InputsAvailable((u \ Consumes(Head(txs))) \cup Produces(Head(txs)), Tail(txs))

ValidNext(block) ==
    /\ Range(block) \cap AppliedTxs = {}
    /\ InputsAvailable(Ledger(applied), block)

InitEnrich ==
    /\ db = EmptyTree
    /\ db_depth = 0
    /\ queue = <<>>
    /\ IdleHarness
    /\ IdleSource
    /\ IdleEnrich
    /\ policy \in {"skip", "fail"}
    /\ rinput = <<>>
    /\ commands = <<>>
    /\ rlast = [res |-> "none"]
    /\ rpos = 0
    /\ sink = EmptyTree
    /\ rtest = [phase |-> "none"]

\* RawBlockPayload and EnrichedBlockPayload as Enrich receives and sends them
RawPayload(kind, bytes) == [kind |-> kind, bytes |-> bytes]

\* a stage that answers every payload with a RollForward
EnrichedPayload_always_forward(kind, bytes, ctx) ==
    [kind |-> "RollForward", bytes |-> bytes, ctx |-> ctx]

EnrichedPayload(kind, bytes, ctx) == [kind |-> kind, bytes |-> bytes, ctx |-> ctx]

\* bytes that MultiEraBlock::decode rejects
BadBytes == <<Malformed>>

\* the stores before the block of the staged message was first received
PreOf(last) == IF staging # <<>> /\ last.op = "StorageError" THEN last.pre ELSE Stores

\* work() receives RollForward(block), from the queue or, after a restart, from the
\* staging slot of the input port: self.input.commit() ends the call.  The parallel
\* lookups complete in any order
EnrichRollForward(block) ==
    /\ staging \in {<<>>, <<RawPayload("RollForward", block)>>}
    /\ staging # <<>> => enrich_last.op = "StorageError"
    /\ ValidNext(block)
    /\ \E order \in LookupOrders(block) :
       LET r == work_roll_forward(Stores, block, order)
       IN  /\ SetStores(r.e)
           /\ enrich_last' = [op |-> "RollForward", block |-> block, ctx |-> r.ctx,
                              mid |-> r.fetched, unpruned |-> r.unpruned,
                              mismatches |-> r.mismatches,
                              recv |-> RawPayload("RollForward", block),
                              retried |-> staging # <<>>,
                              sent |-> <<EnrichedPayload("RollForward", block, r.ctx)>>]
           /\ applied' = Append(applied, [block |-> block, pre |-> PreOf(enrich_last),
                                          ctx |-> r.ctx])
    /\ staging' = <<>>
    /\ UNCHANGED <<bufVars, harnessVars, sourceVars, reducerVars>>

\* the apply_batch call of remove_consumed_utxos that returns an error
StorageFailures == {"index", "ring"}

\* remove_consumed_utxos when one of its two apply_batch calls fails (sled.rs:367-373):
\* the other batch is applied and the function returns the error
remove_consumed_utxos_failing(e, dbr, ring, block, failure) ==
    LET keys == BlockConsumes(block)
        current_values_batch == [k \in keys \cap DOMAIN e[dbr] |-> e[dbr][k]]
    IN  IF failure = "ring"
        THEN [e EXCEPT ![dbr] = apply_batch(@, EmptyTree, keys)]
        ELSE [e EXCEPT ![ring] = apply_batch(@, current_values_batch, {})]

\* work() receives RollForward(block) and remove_consumed_utxos returns a storage error:
\* or_restart()? ends the call at sled.rs:452, before clean_dbs, send and commit
EnrichRollForwardStorageError(block, failure) ==
    /\ staging \in {<<>>, <<RawPayload("RollForward", block)>>}
    /\ staging # <<>> => enrich_last.op = "StorageError"
    /\ ValidNext(block)
    /\ LET e1 == insert_produced_utxos(Stores, db_ref_main, db_ref_produced_ring, block)
           ctx == par_fetch_referenced_utxos(e1, db_ref_main, block, InOrder(block))
           e2 == remove_consumed_utxos_failing(e1, db_ref_main, db_ref_consumed_ring,
                                               block, failure)
       IN  /\ SetStores(e2)
           /\ enrich_last' = [op |-> "StorageError", block |-> block, ctx |-> ctx,
                              mid |-> e1, unpruned |-> e2,
                              mismatches |-> fetch_mismatches(e1, db_ref_main, block),
                              recv |-> RawPayload("RollForward", block),
                              retried |-> staging # <<>>,
                              sent |-> <<>>, failure |-> failure,
                              pre |-> PreOf(enrich_last)]
    /\ staging' = <<RawPayload("RollForward", block)>>
    /\ UNCHANGED applied
    /\ UNCHANGED <<bufVars, harnessVars, sourceVars, reducerVars>>

\* work() receives RollBack(block) for the last block applied
EnrichRollBack ==
    /\ staging = <<>>
    /\ applied # <<>>
    /\ LET block == applied[Len(applied)].block
           r == work_roll_back(Stores, block)
       IN  /\ SetStores(r.e)
           /\ enrich_last' = [op |-> "RollBack", block |-> block, ctx |-> r.ctx,
                              mid |-> r.restored, unpruned |-> r.unpruned,
                              mismatches |-> r.mismatches,
                              recv |-> RawPayload("RollBack", block),
                              retried |-> FALSE,
                              sent |-> <<EnrichedPayload("RollBack", block, r.ctx)>>]
    /\ applied' = SubSeq(applied, 1, Len(applied) - 1)
    /\ staging' = <<>>
    /\ UNCHANGED <<bufVars, harnessVars, sourceVars, reducerVars>>

\* work() receives RollBack with empty bytes: nothing is decoded, the event is passed on
EnrichRollBackEmpty ==
    /\ staging = <<>>
    /\ enrich_last' = [op |-> "RollBackEmpty", block |-> <<>>, ctx |-> EmptyTree,
                       mid |-> Stores, unpruned |-> Stores, mismatches |-> 0,
                       recv |-> RawPayload("RollBack", <<>>),
                       retried |-> FALSE,
                       sent |-> <<EnrichedPayload("RollBack", <<>>, EmptyTree)>>]
    /\ staging' = <<>>
    /\ UNCHANGED <<utxo_db, produced_ring, consumed_ring, applied>>
    /\ UNCHANGED <<bufVars, harnessVars, sourceVars, reducerVars>>

\* work() receives a payload whose bytes do not decode, under the skip policy:
\* apply_policy gives Ok(None) and work() returns Ok(Partial) at sled.rs:443 or :472,
\* before self.input.commit(); recv_or_idle returns the staged message until commit
EnrichSkipped(kind) ==
    /\ policy = "skip"
    /\ staging \in {<<>>, <<RawPayload(kind, BadBytes)>>}
    /\ enrich_last' = [op |-> "Skipped", block |-> BadBytes, ctx |-> EmptyTree,
                       mid |-> Stores, unpruned |-> Stores, mismatches |-> 0,
                       recv |-> RawPayload(kind, BadBytes),
                       retried |-> FALSE,
                       sent |-> <<>>, kind |-> kind, redelivered |-> staging # <<>>]
    /\ staging' = <<RawPayload(kind, BadBytes)>>
    /\ UNCHANGED <<utxo_db, produced_ring, consumed_ring, applied>>
    /\ UNCHANGED <<bufVars, harnessVars, sourceVars, reducerVars>>

\* work() receives RollForward with bytes that do not decode, under the fail policy:
\* apply_policy gives Err and or_panic()? ends the call with a fatal error (sled.rs:436-439)
EnrichRollForwardUndecodable ==
    /\ policy = "fail"
    /\ staging = <<>>
    /\ enrich_last' = [op |-> "Fatal", block |-> BadBytes, ctx |-> EmptyTree,
                       mid |-> Stores, unpruned |-> Stores, mismatches |-> 0,
                       recv |-> RawPayload("RollForward", BadBytes),
                       retried |-> FALSE,
                       sent |-> <<>>]
    /\ staging' = <<RawPayload("RollForward", BadBytes)>>
    /\ UNCHANGED <<utxo_db, produced_ring, consumed_ring, applied>>
    /\ UNCHANGED <<bufVars, harnessVars, sourceVars, reducerVars>>

\* work() receives RollBack with non-empty bytes that do not decode, under the fail
\* policy: the Err of apply_policy is matched and logged (sled.rs:485-487), and the
\* call goes on to send roll_back(cbor, ctx) with the default context and to commit
EnrichRollBackUndecodable ==
    /\ policy = "fail"
    /\ staging = <<>>
    /\ enrich_last' = [op |-> "RollBackUndecoded", block |-> BadBytes, ctx |-> EmptyTree,
                       mid |-> Stores, unpruned |-> Stores, mismatches |-> 0,
                       recv |-> RawPayload("RollBack", BadBytes),
                       retried |-> FALSE,
                       sent |-> <<EnrichedPayload("RollBack", BadBytes, EmptyTree)>>]
    /\ staging' = <<>>
    /\ UNCHANGED <<utxo_db, produced_ring, consumed_ring, applied>>
    /\ UNCHANGED <<bufVars, harnessVars, sourceVars, reducerVars>>

NextEnrich ==
    \/ \E block \in BlockUniverse : EnrichRollForward(block)
    \/ \E block \in BlockUniverse, failure \in StorageFailures :
           EnrichRollForwardStorageError(block, failure)
    \/ EnrichRollBack
    \/ EnrichRollBackEmpty
    \/ \E kind \in {"RollForward", "RollBack"} : EnrichSkipped(kind)
    \/ EnrichRollForwardUndecodable
    \/ EnrichRollBackUndecodable

SpecEnrich == InitEnrich /\ [][NextEnrich]_vars

(***************************************************************************)
(* The reducer stage (src/src/reducers/worker.rs).  A block's bytes are    *)
(* the record [slot, hash]; bytes with the hash Malformed do not decode.   *)
(* A command stream is a sequence of CRDTCommand records; a Result is      *)
(* "ok" or "err".                                                          *)
(***************************************************************************)
NReducers == 2      \* registered reducers
RMaxSlot == 3       \* highest slot of a block handed to the reducer stage
MaxMsgs == 3        \* messages the upstream stage sends in a run of SpecReducers

Reducers == 1..NReducers

RBlocks == [slot : 1..RMaxSlot, hash : {Malformed, 1}]

\* MultiEraBlock::decode(..).map_err(..).apply_policy(&self.policy):
\* Err under the fail policy, Ok(None) when the block is skipped, else Ok(Some(block))
decode_with_policy(bytes, pol) ==
    IF bytes.hash # Malformed THEN [tag |-> "Some", block |-> bytes]
    ELSE IF pol = "fail" THEN [tag |-> "Err", block |-> bytes]
    ELSE [tag |-> "None", block |-> bytes]

\* CRDTCommand::block_starting / block_finished carry the point of the block
block_starting(block) ==
    [cmd |-> "BlockStarting", point |-> [slot |-> block.slot, hash |-> block.hash]]

block_finished(block) ==
    [cmd |-> "BlockFinished", point |-> [slot |-> block.slot, hash |-> block.hash]]

\* BlockContext::default()
default_context == EmptyTree

\* the context Enrich resolved for a block of this chain
ContextOf(block) == (<<block.slot>> :> block.hash)

\* what reducer r sends for (block, ctx, rollback): one command recording the call
reducer_reduce_block(r, block, ctx, rollback) ==
    <<[cmd |-> "Reduced", reducer |-> r, block |-> block, ctx |-> ctx, rollback |-> rollback]>>

\* for reducer in self.reducers.iter_mut() { reducer.reduce_block(..)?; }
\* where reducer number fail (0: none) returns an error
RECURSIVE run_reducers(_, _, _, _, _, _)
run_reducers(out, r, block, ctx, rollback, fail) ==
    IF r > NReducers THEN [out |-> out, res |-> "ok"]
    ELSE IF r = fail THEN [out |-> out, res |-> "err"]
    ELSE run_reducers(out \o reducer_reduce_block(r, block, ctx, rollback),
                      r + 1, block, ctx, rollback, fail)

\* Worker::reduce_block
reduce_block(out, bytes, ctx, pol, fail) ==
    LET block == decode_with_policy(bytes, pol)
    IN  IF block.tag = "Err" THEN [out |-> out, res |-> "err"]
        ELSE IF block.tag = "None" THEN [out |-> out, res |-> "ok"]
        ELSE LET r == run_reducers(Append(out, block_starting(block.block)), 1,
                                   block.block, ctx, FALSE, fail.red)
             IN  IF r.res = "err" THEN r
                 ELSE [out |-> Append(r.out, block_finished(block.block)), res |-> "ok"]

\* the loop of reduce_rollback_blocks over blocks.iter().enumerate(), from index k:
\* res is "return" when a skipped block makes the function return Ok(())
RECURSIVE rollback_loop(_, _, _, _, _, _)
rollback_loop(out, k, blocks, ctx, pol, fail) ==
    IF k > Len(blocks) THEN [out |-> out, res |-> "ok"]
    ELSE LET block == decode_with_policy(blocks[k], pol)
             context == IF k \in DOMAIN ctx THEN ctx[k] ELSE default_context
         IN  IF block.tag = "Err" THEN [out |-> out, res |-> "err"]
             ELSE IF block.tag = "None" THEN [out |-> out, res |-> "return"]
             ELSE LET r == run_reducers(out, 1, block.block, context, TRUE,
                                        IF fail.blk = k THEN fail.red ELSE 0)
                  IN  IF r.res = "err" THEN r
                      ELSE rollback_loop(r.out, k + 1, blocks, ctx, pol, fail)

\* Worker::reduce_rollback_blocks
reduce_rollback_blocks(out, last_valid_block, blocks, ctx, pol, fail) ==
    LET last == decode_with_policy(last_valid_block, pol)
    IN  IF last.tag = "Err" THEN [out |-> out, res |-> "err"]
        ELSE IF last.tag = "None" THEN [out |-> out, res |-> "ok"]
        ELSE LET r == rollback_loop(Append(out, block_starting(last.block)), 1,
                                    blocks, ctx, pol, fail)
             IN  IF r.res = "err" THEN r
                 ELSE IF r.res = "return" THEN [out |-> r.out, res |-> "ok"]
                 ELSE [out |-> Append(r.out, block_finished(last.block)), res |-> "ok"]

\* EnrichedBlockPayload
EnrichedRollForward(block, ctx) == [kind |-> "RollForward", block |-> block, ctx |-> ctx]

EnrichedRollBack(last_valid_block, blocks, contexts) ==
    [kind |-> "RollBack", last_valid_block |-> last_valid_block,
     blocks |-> blocks, contexts |-> contexts]

\* the failures a work() call can meet: reducer red fails on block blk of the message
Failures == [blk : 0..1, red : 0..NReducers]

NoFailure == [blk |-> 0, red |-> 0]

\* Worker::work of the reducer stage: recv_or_idle, reduce, commit
reducer_work(out, msg, pol, fail) ==
    IF msg.kind = "RollForward"
    THEN reduce_block(out, msg.block, msg.ctx, pol, [fail EXCEPT !.red = IF fail.blk = 1 THEN @ ELSE 0])
    ELSE reduce_rollback_blocks(out, msg.last_valid_block, msg.blocks, msg.contexts, pol, fail)

ReducerWork(fail) ==
    /\ rinput # <<>>
    /\ rlast.res # "err"
    /\ LET msg == Head(rinput)
           r == reducer_work(commands, msg, policy, fail)
       IN  /\ commands' = r.out
           /\ rinput' = IF r.res = "ok" THEN Tail(rinput) ELSE rinput
           /\ rlast' = [res |-> r.res, msg |-> msg, fail |-> fail, n |-> rpos - Len(rinput) + 1]
    /\ UNCHANGED <<policy, rpos, sink, rtest>>
    /\ UNCHANGED <<bufVars, harnessVars, sourceVars, enrichVars>>

(***************************************************************************)
(* SpecReducers: the reducer stage fed by an upstream stage that sends     *)
(* forward blocks and rollback batches (the blocks above the last valid    *)
(* block, highest slot first, with the contexts resolved for them).        *)
(***************************************************************************)
\* the slots of a sequence of blocks strictly descend and lie above slot s
DescendingAbove(blocks, s) ==
    /\ \A i \in 1..Len(blocks) : blocks[i].slot > s
    /\ \A i \in 1..(Len(blocks) - 1) : blocks[i].slot > blocks[i + 1].slot

RollBackMessages ==
    {EnrichedRollBack(last, blocks, [i \in 1..n |-> ContextOf(blocks[i])]) :
        <<last, blocks, n>> \in
            {x \in RBlocks \X (UNION {[1..m -> RBlocks] : m \in 0..(RMaxSlot - 1)}) \X (0..(RMaxSlot - 1)) :
                /\ DescendingAbove(x[2], x[1].slot)
                /\ x[3] <= Len(x[2])}}

RollForwardMessages == {EnrichedRollForward(b, ContextOf(b)) : b \in RBlocks}

InitReducers ==
    /\ db = EmptyTree
    /\ db_depth = 0
    /\ queue = <<>>
    /\ IdleHarness
    /\ IdleSource
    /\ IdleEnrich
    /\ policy \in {"skip", "fail"}
    /\ rinput = <<>>
    /\ commands = <<>>
    /\ rlast = [res |-> "none"]
    /\ rpos = 0
    /\ sink = EmptyTree
    /\ rtest = [phase |-> "none"]

\* the message the upstream stage sent last: <<msg>>, or <<>> before the first one
\* (messages are received in order, and a message is dropped only on commit)
LastSent ==
    IF rinput # <<>> THEN <<rinput[Len(rinput)]>>
    ELSE IF rlast.res = "none" THEN <<>>
    ELSE <<rlast.msg>>

\* the tip of the upstream chain after msg
TipAfter(msg) ==
    IF msg.kind = "RollForward" THEN msg.block ELSE msg.last_valid_block

\* the upstream stage follows one chain: a forward block extends the tip, a
\* rollback batch returns to a block at or below the tip and holds the blocks
\* from the tip downwards; the stage can be started at any position of the chain
FollowsChain(msg) ==
    \/ LastSent = <<>>
    \/ /\ LastSent # <<>>
       /\ LET tip == TipAfter(LastSent[1])
          IN  IF msg.kind = "RollForward" THEN msg.block.slot > tip.slot
              ELSE IF msg.blocks = <<>> THEN msg.last_valid_block = tip
              ELSE /\ msg.last_valid_block.slot < tip.slot
                   /\ msg.blocks[1] = tip

\* the upstream stage sends a message on the reducer stage's input port
Upstream(msg) ==
    /\ rpos < MaxMsgs
    /\ FollowsChain(msg)
    /\ rpos' = rpos + 1
    /\ rinput' = Append(rinput, msg)
    /\ UNCHANGED <<policy, commands, rlast, sink, rtest>>
    /\ UNCHANGED <<bufVars, harnessVars, sourceVars, enrichVars>>

NextReducers ==
    \/ \E msg \in RollForwardMessages : Upstream(msg)
    \/ \E msg \in RollBackMessages : Upstream(msg)
    \/ \E fail \in Failures : ReducerWork(fail)

SpecReducers == InitReducers /\ [][NextReducers]_vars

(***************************************************************************)
(* Reducers as functions from (block, context, direction) to commands, and *)
(* the sink that applies the commands.  A sink entry is addressed by the   *)
(* record [ns, id, field]: the key prefix, the key and, for hashes and     *)
(* sorted sets, the field or member (0 for a plain key).                   *)
(***************************************************************************)
NAddr == 2          \* addresses
MaxOutputs == 2     \* outputs a transaction of the reducer tests produces

Addrs == 1..NAddr

\* Asset::NativeAsset(policy_id, asset_name, quantity)
NativeAsset(p, n, q) == [policy |-> p, name |-> n, quantity |-> q]

\* the non-ada assets an output can hold: policy 1 is the configured policy
AssetLists ==
    {<<>>, <<NativeAsset(1, 1, 1)>>, <<NativeAsset(1, 2, 1)>>,
     <<NativeAsset(1, 1, 1), NativeAsset(1, 2, 1)>>, <<NativeAsset(2, 1, 1)>>}

\* MultiEraOutput: address(), lovelace_amount(), non_ada_assets()
TxOutputs == [address : Addrs, lovelace : {100}, assets : AssetLists]

\* the transactions of the reducer tests: at most one input, up to MaxOutputs outputs,
\* and a mint field that is empty or mints one unit of asset 1 of policy 1
TestTxs ==
    [consumes : {<<>>, <<Ref(1, 0)>>},
     produces : UNION {[1..n -> TxOutputs] : n \in 0..MaxOutputs},
     mint : {<<>>, <<NativeAsset(1, 1, 1)>>}]

\* a block of one transaction at slot 2
TestBlock(tx) == [slot |-> 2, txs |-> <<tx>>]

\* BlockContext::find_utxo: Some (a sequence of one output) or an error (the empty sequence)
find_utxo(ctx, ref) == IF ref \in DOMAIN ctx THEN <<ctx[ref]>> ELSE <<>>

SinkKey(ns, id, field) == [ns |-> ns, id |-> id, field |-> field]

\* CRDTCommand::any_write_wins(prefix, key, value)
any_write_wins(key, value) == [cmd |-> "AnyWriteWins", key |-> key, value |-> value]

\* CRDTCommand::HashCounter(key, field, delta) and SortedSetAdd(key, member, delta)
HashCounter(key, delta) == [cmd |-> "HashCounter", key |-> key, value |-> delta]

SortedSetAdd(key, delta) == [cmd |-> "SortedSetAdd", key |-> key, value |-> delta]

\* the sink applies one command: overwrite, or add the delta to the counter or score
\* (an entry that was never written counts as 0)
apply_command(s, c) ==
    IF c.cmd = "AnyWriteWins" THEN Put(s, c.key, c.value)
    ELSE IF c.cmd \in {"HashCounter", "SortedSetAdd"}
    THEN Put(s, c.key, (IF c.key \in DOMAIN s THEN s[c.key] ELSE 0) + c.value)
    ELSE s

RECURSIVE apply_commands(_, _)
apply_commands(s, cmds) ==
    IF cmds = <<>> THEN s ELSE apply_commands(apply_command(s, Head(cmds)), Tail(cmds))

\* flatten a sequence of command sequences
RECURSIVE Concat(_)
Concat(ss) == IF ss = <<>> THEN <<>> ELSE Head(ss) \o Concat(Tail(ss))

(***************************************************************************)
(* reducers/address_by_asset.rs, configured with policy 1,                 *)
(* convert_to_ascii = false, soa = false.                                  *)
(***************************************************************************)
\* Reducer::to_string_output: the asset name when the asset is of the configured policy
to_string_output(asset) == IF asset.policy = 1 THEN <<asset.name>> ELSE <<>>

\* Reducer::process_txo
process_txo(txo, also_store_inverted) ==
    LET asset_names == Concat([i \in 1..Len(txo.assets) |-> to_string_output(txo.assets[i])])
        address == txo.address
    IN  Concat([i \in 1..Len(asset_names) |->
            <<any_write_wins(SinkKey("asset", asset_names[i], 0), address)>>
            \o (IF also_store_inverted
                THEN <<any_write_wins(SinkKey("address", address, 0), asset_names[i])>>
                ELSE <<>>)])

\* Reducer::reduce_block of address_by_asset
address_by_asset_reduce_block(block, ctx, rollback, also_store_inverted) ==
    Concat([t \in 1..Len(block.txs) |->
        LET tx == block.txs[t]
        IN  IF rollback
            THEN Concat([i \in 1..Len(tx.consumes) |->
                     LET txo == find_utxo(ctx, tx.consumes[i])
                     IN  IF txo # <<>> THEN process_txo(txo[1], also_store_inverted) ELSE <<>>])
            ELSE Concat([i \in 1..Len(tx.produces) |->
                     process_txo(tx.produces[i], also_store_inverted)])])

(***************************************************************************)
(* reducers/multi_asset_balances.rs (the balance-by-address reducer), with *)
(* the default key prefix.  A HashMap is iterated in an order the program  *)
(* does not choose: ord is "asc" or "desc" over the keys.                  *)
(***************************************************************************)
\* asset_fingerprint([policy_id, asset_name]): one id per (policy, name); 0 is "lovelace"
asset_fingerprint(p, n) == p * 10 + n

\* the keys K of a HashMap in iteration order ord
RECURSIVE IterOrder(_, _)
IterOrder(K, ord) ==
    IF K = {} THEN <<>>
    ELSE LET k == IF ord = "asc" THEN CHOOSE x \in K : \A y \in K : x <= y
                  ELSE CHOOSE x \in K : \A y \in K : x >= y
         IN  <<k>> \o IterOrder(K \ {k}, ord)

\* the sum of s[i] over the indices i in I
RECURSIVE SumOver(_, _)
SumOver(s, I) ==
    IF I = {} THEN 0
    ELSE LET i == CHOOSE x \in I : TRUE IN s[i] + SumOver(s, I \ {i})

\* Reducer::calculate_address_asset_balance_offsets:
\* [tallies |-> fingerprint -> sum for this address, owners |-> the (policy, fingerprint, quantity) pushed]
calculate_address_asset_balance_offsets(address, lovelace, assets, spending) ==
    LET adjusted == [i \in 1..Len(assets) |->
                        IF spending THEN 0 - assets[i].quantity ELSE assets[i].quantity]
        fp(i) == asset_fingerprint(assets[i].policy, assets[i].name)
        fps == {fp(i) : i \in 1..Len(assets)}
    IN  [tallies |-> [f \in fps \cup {0} |->
                         SumOver(adjusted, {i \in 1..Len(assets) : fp(i) = f})
                         + (IF f = 0 THEN lovelace ELSE 0)],
         owners |-> [i \in 1..Len(assets) |->
                         [policy |-> assets[i].policy, fingerprint |-> fp(i),
                          soa |-> address, quantity |-> adjusted[i]]]]

\* Reducer::reconcile_asset_movement
reconcile_asset_movement(address, offsets, ord) ==
    LET fo == IterOrder(DOMAIN offsets.tallies, ord)
        policies == IterOrder({offsets.owners[i].policy : i \in 1..Len(offsets.owners)}, ord)
        fpsOf(pol) == IterOrder({offsets.owners[i].fingerprint :
                                    i \in {j \in 1..Len(offsets.owners) :
                                               offsets.owners[j].policy = pol}}, ord)
        ownersOf(f) == SelectSeq(offsets.owners, LAMBDA o : o.fingerprint = f)
    IN  [i \in 1..Len(fo) |-> HashCounter(SinkKey("wallet", address, fo[i]), offsets.tallies[fo[i]])]
        \o Concat([p \in 1..Len(policies) |->
               Concat([f \in 1..Len(fpsOf(policies[p])) |->
                   LET fgp == fpsOf(policies[p])[f]
                       os == ownersOf(fgp)
                   IN  Concat([o \in 1..Len(os) |->
                           <<SortedSetAdd(SinkKey("policy_assets", policies[p], fgp), os[o].quantity),
                             HashCounter(SinkKey("asset_owners", fgp, os[o].soa), os[o].quantity)>>])])])

\* NaiveProvider::slot_to_wallclock
slot_to_wallclock(slot) == slot

\* Reducer::process_asset_movement
process_asset_movement(soa, lovelace, assets, spending, slot, ord) ==
    LET adjusted_lovelace == IF spending THEN 0 - lovelace ELSE lovelace
        offsets == calculate_address_asset_balance_offsets(soa, adjusted_lovelace, assets, spending)
    IN  reconcile_asset_movement(soa, offsets, ord)
        \o <<any_write_wins(SinkKey("last_activity", soa, 0), slot_to_wallclock(slot))>>

\* Reducer::stake_or_address_from_address
stake_or_address_from_address(address) == address

\* Reducer::process_received
process_received(meo, slot, ord) ==
    process_asset_movement(stake_or_address_from_address(meo.address), meo.lovelace,
                           meo.assets, FALSE, slot, ord)

\* Reducer::process_spent
process_spent(mei, ctx, slot, ord) ==
    LET spent_output == find_utxo(ctx, mei)
    IN  IF spent_output = <<>> THEN <<>>
        ELSE process_asset_movement(stake_or_address_from_address(spent_output[1].address),
                                    spent_output[1].lovelace, spent_output[1].assets,
                                    TRUE, slot, ord)

\* Reducer::process_minted_or_burned
process_minted_or_burned(mint, ord) ==
    LET fp(i) == asset_fingerprint(mint[i].policy, mint[i].name)
        quantities == [i \in 1..Len(mint) |-> mint[i].quantity]
        policies == IterOrder({mint[i].policy : i \in 1..Len(mint)}, ord)
        fpsOf(pol) == IterOrder({fp(i) : i \in {j \in 1..Len(mint) : mint[j].policy = pol}}, ord)
    IN  Concat([p \in 1..Len(policies) |->
            [f \in 1..Len(fpsOf(policies[p])) |->
                SortedSetAdd(SinkKey("policy", policies[p], fpsOf(policies[p])[f]),
                             SumOver(quantities,
                                     {i \in 1..Len(mint) : fp(i) = fpsOf(policies[p])[f]}))]])

\* a reduce_block that tallies the produced outputs of a transaction before its inputs
multi_asset_balances_received_first(block, ctx, ord) ==
    Concat([t \in 1..Len(block.txs) |->
        LET tx == block.txs[t]
        IN  process_minted_or_burned(tx.mint, ord)
            \o Concat([i \in 1..Len(tx.produces) |->
                   process_received(tx.produces[i], block.slot, ord)])
            \o Concat([i \in 1..Len(tx.consumes) |-> process_spent(tx.consumes[i], ctx, block.slot, ord)])])

\* Reducer::reduce_block of multi_asset_balances: it takes no direction
multi_asset_balances_reduce_block(block, ctx, ord) ==
    Concat([t \in 1..Len(block.txs) |->
        LET tx == block.txs[t]
        IN  process_minted_or_burned(tx.mint, ord)
            \o Concat([i \in 1..Len(tx.consumes) |-> process_spent(tx.consumes[i], ctx, block.slot, ord)])
            \o Concat([i \in 1..Len(tx.produces) |->
                   process_received(tx.produces[i], block.slot, ord)])])

\* super::Reducer::reduce_block(block, ctx, rollback, output), the call of the reducer
\* stage (worker.rs:61, :110): the balance reducer's function has no rollback parameter
dispatch_reduce_block(reducer, block, ctx, rollback, cfg) ==
    IF reducer = "address_by_asset"
    THEN address_by_asset_reduce_block(block, ctx, rollback, cfg.also_store_inverted)
    ELSE multi_asset_balances_reduce_block(block, ctx, cfg.ord)

(***************************************************************************)
(* SpecReducerFn: one reducer run on one block, forward and then undo,     *)
(* with the commands applied to the sink.                                  *)
(***************************************************************************)
ReducerKinds == {"address_by_asset", "multi_asset_balances"}

\* the context Enrich resolved for the block: the spent output of each input found
TestContexts(tx) ==
    UNION {[R -> TxOutputs] : R \in SUBSET Range(tx.consumes)}

\* the sink after the outputs of the context were produced by earlier blocks
SinkOfContext(reducer, ctx, cfg) ==
    LET outs == IF Ref(1, 0) \in DOMAIN ctx THEN <<ctx[Ref(1, 0)]>> ELSE <<>>
        earlier == [slot |-> 1, txs |-> <<[consumes |-> <<>>, produces |-> outs, mint |-> <<>>]>>]
    IN  apply_commands(EmptyTree, dispatch_reduce_block(reducer, earlier, EmptyTree, FALSE, cfg))

InitReducerFn ==
    /\ db = EmptyTree
    /\ db_depth = 0
    /\ queue = <<>>
    /\ IdleHarness
    /\ IdleSource
    /\ IdleEnrich
    /\ policy = "skip"
    /\ rinput = <<>>
    /\ commands = <<>>
    /\ rlast = [res |-> "none"]
    /\ rpos = 0
    /\ \E reducer \in ReducerKinds, tx \in TestTxs, inv \in BOOLEAN, fresh \in BOOLEAN :
          \E ctx \in TestContexts(tx) :
              LET cfg == [also_store_inverted |-> inv, ord |-> "asc"]
              IN  /\ reducer = "multi_asset_balances" => ~inv
                  /\ sink = IF fresh THEN EmptyTree ELSE SinkOfContext(reducer, ctx, cfg)
                  /\ rtest = [phase |-> "pre", reducer |-> reducer, block |-> TestBlock(tx),
                              ctx |-> ctx, cfg |-> cfg, pre |-> sink, fwd |-> <<>>, sent |-> <<>>]

\* the reducer stage runs the reducer on the block (Forward) and the sink applies the commands
ReducerForward(ord) ==
    /\ rtest.phase = "pre"
    /\ LET cfg == [rtest.cfg EXCEPT !.ord = ord]
           cmds == dispatch_reduce_block(rtest.reducer, rtest.block, rtest.ctx, FALSE, cfg)
       IN  /\ sink' = apply_commands(sink, cmds)
           /\ rtest' = [rtest EXCEPT !.phase = "forward", !.sent = cmds]
    /\ UNCHANGED <<policy, rinput, commands, rlast, rpos>>
    /\ UNCHANGED <<bufVars, harnessVars, sourceVars, enrichVars>>

\* the reducer stage runs the reducer on the same block and context (Undo)
ReducerUndo(ord) ==
    /\ rtest.phase = "forward"
    /\ LET cfg == [rtest.cfg EXCEPT !.ord = ord]
           cmds == dispatch_reduce_block(rtest.reducer, rtest.block, rtest.ctx, TRUE, cfg)
       IN  /\ sink' = apply_commands(sink, cmds)
           /\ rtest' = [rtest EXCEPT !.phase = "undo", !.fwd = rtest.sent, !.sent = cmds]
    /\ UNCHANGED <<policy, rinput, commands, rlast, rpos>>
    /\ UNCHANGED <<bufVars, harnessVars, sourceVars, enrichVars>>

NextReducerFn ==
    \/ \E ord \in {"asc", "desc"} : ReducerForward(ord)
    \/ \E ord \in {"asc", "desc"} : ReducerUndo(ord)

SpecReducerFn == InitReducerFn /\ [][NextReducerFn]_vars

(***************************************************************************)
(* SpecBalanceForward: the balance reducer run forward on one block of one *)
(* or two transactions that produce at most MaxOutputs outputs.            *)
(***************************************************************************)
\* a second transaction of a block: it spends Ref(1, 1), an output of 100 lovelace held
\* by address 1 that the context resolves, to the last address
SecondTx ==
    [consumes |-> <<Ref(1, 1)>>,
     produces |-> <<[address |-> NAddr, lovelace |-> 100, assets |-> <<>>]>>,
     mint |-> <<>>]

SecondTxContext == [r \in {Ref(1, 1)} |-> [address |-> 1, lovelace |-> 100, assets |-> <<>>]]

InitBalanceForward ==
    /\ db = EmptyTree
    /\ db_depth = 0
    /\ queue = <<>>
    /\ IdleHarness
    /\ IdleSource
    /\ IdleEnrich
    /\ policy = "skip"
    /\ rinput = <<>>
    /\ commands = <<>>
    /\ rlast = [res |-> "none"]
    /\ rpos = 0
    /\ sink = EmptyTree
    /\ \E tx \in TestTxs, two \in BOOLEAN :
          \E ctx \in TestContexts(tx) :
              /\ two => Len(tx.produces) + Len(SecondTx.produces) <= MaxOutputs
              /\ rtest = [phase |-> "pre", reducer |-> "multi_asset_balances",
                          block |-> [slot |-> 2,
                                     txs |-> IF two THEN <<tx, SecondTx>> ELSE <<tx>>],
                          ctx |-> IF two THEN ctx @@ SecondTxContext ELSE ctx,
                          cfg |-> [also_store_inverted |-> FALSE, ord |-> "asc"],
                          pre |-> EmptyTree, fwd |-> <<>>, sent |-> <<>>]

NextBalanceForward == \E ord \in {"asc", "desc"} : ReducerForward(ord)

SpecBalanceForward == InitBalanceForward /\ [][NextBalanceForward]_vars

(***************************************************************************)
(* Claims about BufferBlocks, checked under SpecBuffer.                    *)
(***************************************************************************)
\* C8: BlockBuffer cap.  After N > cap calls of insert_block with distinct
\* increasing slots (above every slot the store held when opened), exactly cap
\* entries remain in the store and they are the cap highest slots inserted.
C8_CapAfterInserts ==
    (ins_hist # Broken /\ Len(ins_hist) > BufferCap) =>
        /\ Cardinality(DOMAIN db) = BufferCap
        /\ DOMAIN db = {to_string(ins_hist[i]) :
                            i \in (Len(ins_hist) - BufferCap + 1)..Len(ins_hist)}

\* C8: a state after N > cap increasing inserts, where the claim's case happens
C8_Witness == ins_hist # Broken /\ Len(ins_hist) > BufferCap

C9_QueueNonEmpty == queue # <<>>

\* C10: enqueue_rollback_batch(point) appends to the rollback queue the keys of
\* exactly the entries with slot > point.slot in descending slot order, returns
\* the bytes of exactly those blocks in that order, and the queue depth grows by
\* their number.
C10_EnqueueAppendsDescending ==
    [][buf_last'.op = "enqueue_rollback_batch" =>
          LET desc == DescBySlot(db, KeysAbove(db, buf_last'.point.slot))
          IN  /\ queue' = queue \o desc
              /\ buf_last'.ret = [i \in 1..Len(desc) |-> db[desc[i]]]
              /\ rollback_queue_len(Buf(db', db_depth', queue')) =
                     rollback_queue_len(ThisBuf) + Len(desc)]_vars

\* C10: enqueue_rollback_batch was called with entries above the point in the store
C10_Witness ==
    /\ buf_last.op = "enqueue_rollback_batch"
    /\ Len(buf_last.ret) > 1


ScanSlotsAbove(t, s) ==
    LET walked == gt_walk(t, to_string(s))
    IN  [i \in 1..Len(walked) |-> t[walked[i]].slot]

\* C24: the key order of the BlockBuffer store is the numeric slot order.  The
\* first entry of the store is the entry with the lowest slot, and a
\* greater-than scan from slot s visits exactly the entries with slot > s, in
\* ascending slot order.
C24_KeyOrderIsSlotOrder ==
    /\ DOMAIN db # {} =>
           \A k \in DOMAIN db : db[LexMin(DOMAIN db)].slot <= db[k].slot
    /\ \A s \in BufSlots :
           LET visited == ScanSlotsAbove(db, s)
           IN  /\ Range(visited) = {db[k].slot : k \in KeysAbove(db, s)}
               /\ \A i, j \in 1..Len(visited) : i < j => visited[i] < visited[j]

\* C24: after an insert_block the store holds two slots whose decimal keys differ in length
C24_Witness ==
    /\ buf_last.op = "insert_block"
    /\ \E k1, k2 \in DOMAIN db : Len(k1) < Len(k2)

\* C38: enqueue_rollback_batch leaves the retained chain untouched.  After
\* enqueue_rollback_batch(point) every store entry with slot <= point.slot is
\* still present with the same bytes, and no entry with slot > point.slot has
\* been deleted by the call.
C38_EnqueueKeepsRetainedChain ==
    [][buf_last'.op = "enqueue_rollback_batch" =>
          LET s == slot_or_default(buf_last'.point)
          IN  /\ \A k \in DOMAIN db :
                     db[k].slot <= s => (k \in DOMAIN db' /\ db'[k] = db[k])
              /\ \A k \in DOMAIN db : db[k].slot > s => k \in DOMAIN db']_vars

\* C38: enqueue_rollback_batch was called on a store with entries at or below the point
\* and entries above it
C38_Witness ==
    /\ buf_last.op = "enqueue_rollback_batch"
    /\ \E k \in DOMAIN db : db[k].slot <= slot_or_default(buf_last.point)
    /\ Len(buf_last.ret) > 1

\* C39: the tracked depth is the entry count.  After the store is opened and
\* after every insert_block (with or without an eviction),
\* enqueue_rollback_batch and rollback_pop, db_depth equals the number of
\* entries in the store.
C39_DepthIsEntryCount ==
    db_depth = Cardinality(DOMAIN db)

\* C39: insert_block added an entry to a store that was opened empty
C39_Witness ==
    /\ buf_last.op = "insert_block"
    /\ db_depth = 0
    /\ DOMAIN db # {}

(***************************************************************************)
(* Claims about the Source, checked under SpecSource.                      *)
(***************************************************************************)
\* the events the tick that ends in the primed state sent
Sent(out0, out1) == SubSeq(out1, Len(out0) + 1, Len(out1))

\* C4: source ordering.  In the emitted stream, a RollForward for slot s that
\* follows a RollForward for a slot >= s is preceded by the RollBack of that
\* earlier block: every RollBack for a slot strictly precedes the subsequent
\* RollForward for a slot greater than or equal to it.
C4_SourceOrdering ==
    \A j \in 1..Len(output) : \A i \in 1..(j - 1) :
        (/\ output[i].kind = "RollForward"
         /\ output[j].kind = "RollForward"
         /\ output[j].block.slot <= output[i].block.slot)
        => \E k \in (i + 1)..(j - 1) : output[k] = RollBackPayload(output[i].block)

\* C4: a RollForward was emitted after the node rolled back below an emitted block
C4_Witness ==
    /\ tick.resp = "RollForward"
    /\ \E i \in 1..Len(output) : output[i].kind = "RollForward"
                                  /\ output[i].block.slot >= tick.point.slot
    /\ \E j \in 1..Len(output) : output[j].block.slot >= tick.point.slot
                                  /\ output[j].block.hash # tick.point.hash

\* C5: replayed rollback.  After RollBackward(point) with point outside the
\* window, every work tick that starts with blocks above point still owed emits
\* exactly one event, the RollBack of the highest owed block (so the owed blocks
\* go out in descending slot order, one per tick), and a RollBack is emitted
\* only for an owed block.
C5_ReplayedRollback ==
    [][/\ (~done /\ owed # <<>>) => output' = Append(output, RollBackPayload(Head(owed)))
       /\ \A i \in 1..Len(Sent(output, output')) :
              Sent(output, output')[i].kind = "RollBack" =>
                  Sent(output, output')[i].block \in Range(owed) \cup Range(owed')]_vars

\* C5: an out-of-scope rollback left BlockBuffer entries above the point
C5_Witness == tick.resp = "RollBackward" /\ tick.effect = "OutOfScope" /\ owed # <<>>

\* C6: absorbed rollback.  A tick on which the node reports RollBackward(point)
\* with point in the window truncates the window to point, leaves the
\* BlockBuffer and the rollback queue unchanged and emits nothing.
C6_AbsorbedRollback ==
    [][(tick'.resp = "RollBackward" /\ tick'.point \in Range(chain_buffer)) =>
          /\ chain_buffer' = SubSeq(chain_buffer, 1,
                                 CHOOSE x \in 1..Len(chain_buffer) :
                                     chain_buffer[x] = tick'.point)
          /\ db' = db
          /\ db_depth' = db_depth
          /\ queue' = queue
          /\ output' = output]_vars

\* C6: a rollback inside the window has cut points off the window, with blocks already emitted
C6_Witness ==
    /\ tick.resp = "RollBackward"
    /\ tick.effect = "Handled"
    /\ tick.cut
    /\ chain_buffer # <<>>
    /\ chain_buffer[Len(chain_buffer)] = tick.point
    /\ output # <<>>

\* the BlockBuffer after insert_block of the block of each point, in order
RECURSIVE InsertAll(_, _)
InsertAll(b, points) ==
    IF points = <<>> THEN b
    ELSE InsertAll(insert_block(b, Head(points), fetch_single(Head(points))), Tail(points))

C22_RollbackBelowBufferIsFatal ==
    [][(/\ tick'.resp = "RollBackward"
        /\ tick'.point \notin Range(chain_buffer)
        /\ LowestStored(db) # <<>>
        /\ slot_or_default(tick'.point) < LowestStored(db)[1]) =>
          /\ tick'.res = "IntersectLost"
          /\ output' = output]_vars

\* C22: the node rolled back to a point outside the window and below every stored block
C22_Witness ==
    /\ tick.resp = "RollBackward"
    /\ tick.effect = "OutOfScope"
    /\ tick.lowest # <<>>
    /\ slot_or_default(tick.point) < tick.lowest[1]

\* C23: an intersect failure is fatal at bootstrap.  When define_chainsync_start
\* yields no point, bootstrap ends with IntersectNotFound as a fatal error,
\* neither client is installed, bootstrap is not run again and no event is
\* ever emitted.
C23_IntersectFailureIsFatal ==
    [][/\ (worker.boot # "panic" /\ worker'.boot = "panic") =>
             /\ worker'.error = "IntersectNotFound"
             /\ ~worker'.chainsync
             /\ ~worker'.blockfetch
             /\ output' = <<>>
       /\ worker.error = "IntersectNotFound" =>
             /\ worker' = worker
             /\ output' = output]_vars

\* C23: bootstrap found no intersection and ended with the fatal error
C23_Witness ==
    /\ worker.boot = "panic"
    /\ worker.error = "IntersectNotFound"

FinalizeHolds(sent, i, pending) ==
    IF sent[i].kind = "RollForward"
    THEN should_finalize(worker.finalize,
                         [slot |-> sent[i].block.slot, hash |-> sent[i].block.hash],
                         pending, FALSE)
    ELSE should_finalize(worker.finalize, Origin, pending, TRUE)

\* C30: finalize check after each emitted event.  When the finalize predicate
\* holds after an event of a tick (for the point of a RollForward, and with
\* whether the rollback queue is still non-empty), that event is the last of
\* the tick, the tick returns Done, and nothing is emitted afterwards.
C30_FinalizeAfterEachEvent ==
    [][LET sent == Sent(output, output')
       IN  /\ \A i \in 1..Len(sent) :
                  FinalizeHolds(sent, i, queue' # <<>>) =>
                      /\ i = Len(sent)
                      /\ tick'.res = "Done"
                      /\ done'
           /\ done => output' = output]_vars

\* C30: a tick emitted the block of the configured slot and returned Done
C30_Witness ==
    /\ done
    /\ tick.res = "Done"
    /\ tick.ready # <<>>
    /\ worker.finalize # <<>>
    /\ output[Len(output)].kind = "RollForward"
    /\ output[Len(output)].block.slot >= worker.finalize[1]

\* C36: no duplicate roll-forward.  The Source never emits RollForward for the
\* same block twice without a RollBack of that block between the two; the
\* tip block pushed back into the window after an out-of-window rollback is
\* not emitted again.
C36_NoDuplicateRollForward ==
    \A j \in 1..Len(output) : \A i \in 1..(j - 1) :
        (output[i].kind = "RollForward" /\ output[j] = output[i])
        => \E k \in (i + 1)..(j - 1) : output[k] = RollBackPayload(output[i].block)

\* C36: an out-of-window rollback pushed the tip block, emitted before, back into the
\* window, and a later tick popped a point from the window
C36_Witness ==
    /\ rollbacks > 0
    /\ tick.resp = "RollForward"
    /\ tick.ready # <<>>
    /\ \E i \in 1..(Len(output) - 1) :
           output[i] = RollForwardPayload(fetch_single(tick.ready[1]))

\* number of events of the given kind for block b among the first n events
CountOf(kind, b, n) ==
    Cardinality({i \in 1..n : output[i].kind = kind /\ output[i].block = b})

\* C37: every rollback undoes an applied block.  At every prefix of the stream
\* the RollBack events for a block are no more than its RollForward events,
\* and a RollBack carries the non-empty bytes of a block.
C37_RollbackUndoesApplied ==
    \A n \in 1..Len(output) :
        output[n].kind = "RollBack" =>
            /\ output[n].block # NoBytes
            /\ CountOf("RollBack", output[n].block, n)
                   <= CountOf("RollForward", output[n].block, n)

\* C37: the case the claim is about, a RollBack in the stream; no reachable state has one
C37_RollBackEmitted ==
    \E n \in 1..Len(output) : output[n].kind = "RollBack"

(***************************************************************************)
(* Claims about Enrich, checked under SpecEnrich.                          *)
(***************************************************************************)
\* C1: undo symmetry.  Processing RollForward(B) and then RollBack(B) leaves the
\* UTXO index, the produced ring and the consumed ring each equal to their
\* contents before B.
C1_UndoSymmetry ==
    [][(enrich_last.op = "RollForward" /\ enrich_last'.op = "RollBack") =>
          /\ utxo_db' = applied[Len(applied)].pre.db
          /\ produced_ring' = applied[Len(applied)].pre.produced_ring
          /\ consumed_ring' = applied[Len(applied)].pre.consumed_ring]_vars

\* C1: a block that spends an output of an earlier block was applied and rolled back
C1_Witness ==
    /\ enrich_last.op = "RollBack"
    /\ BlockConsumes(enrich_last.block) \cap Ledger(applied) # {}

\* C2: UTXO index invariant.  The index holds exactly the outputs produced by
\* the blocks applied and not rolled back, minus the outputs those blocks
\* consumed, each with its value.
C2_UtxoIndexInvariant == utxo_db = [k \in Ledger(applied) |-> SledTxValue(k)]

\* C2: a block was rolled back while earlier blocks stay applied with unspent outputs
C2_Witness ==
    /\ enrich_last.op = "RollBack"
    /\ applied # <<>>
    /\ Ledger(applied) # {}

\* C3: undo-ring retention.  For every block B applied and not rolled back the
\* produced ring holds every key B produced and the consumed ring holds the
\* prior value of every key B deleted from the index; after B is rolled back
\* neither ring holds an entry for B.
C3_RingRetention ==
    /\ \A x \in 1..Len(applied) :
          LET B == applied[x].block
              pre == applied[x].pre
              deleted == BlockConsumes(B) \cap ((DOMAIN pre.db) \cup BlockProduces(B))
          IN  /\ BlockProduces(B) \subseteq DOMAIN produced_ring
              /\ \A k \in deleted :
                     /\ k \in DOMAIN consumed_ring
                     /\ consumed_ring[k] = IF k \in DOMAIN pre.db THEN pre.db[k]
                                           ELSE SledTxValue(k)
    /\ enrich_last.op = "RollBack" =>
          /\ BlockProduces(enrich_last.block) \cap DOMAIN produced_ring = {}
          /\ BlockConsumes(enrich_last.block) \cap DOMAIN consumed_ring = {}

\* C3: a block that deleted a key from the index is applied, with a later block on top
C3_Witness ==
    /\ Len(applied) >= 2
    /\ BlockConsumes(applied[1].block) \cap BlockProduces(applied[1].block) # {}

\* the consumed ring as the rollback path reads it, after the produced keys are removed
RingAtRestore == enrich_last.mid[db_ref_consumed_ring]

\* C16: missing input on undo.  When RollBack(B) is processed, a key consumed
\* by B that has no entry in the consumed ring when the consumed keys are
\* restored is skipped and the UTXO index gains no entry for it, every consumed
\* key that has an entry is restored with the ring's value, and the call ends
\* with RollBack(B, context) sent downstream and the message committed.
C16_MissingInputOnUndo ==
    [][enrich_last'.op = "RollBack" =>
          LET B == enrich_last'.block
              ring == enrich_last'.mid[db_ref_consumed_ring]
              index == enrich_last'.mid[db_ref_main]
          IN  /\ \A k \in BlockConsumes(B) \ DOMAIN ring :
                     /\ k \in DOMAIN utxo_db' <=> k \in DOMAIN index
                     /\ k \in DOMAIN index => utxo_db'[k] = index[k]
              /\ \A k \in BlockConsumes(B) \cap DOMAIN ring :
                     /\ k \in DOMAIN utxo_db'
                     /\ utxo_db'[k] = ring[k]
              /\ enrich_last'.sent = <<EnrichedPayload("RollBack", B, enrich_last'.ctx)>>
              /\ staging' = <<>>]_vars

\* C16: a block with a genesis input was rolled back, and another of its inputs was restored
C16_Witness ==
    /\ enrich_last.op = "RollBack"
    /\ GenesisRef \in BlockConsumes(enrich_last.block) \ DOMAIN RingAtRestore
    /\ BlockConsumes(enrich_last.block) \cap DOMAIN RingAtRestore # {}

\* the references of block B that the forward path does not find in the index
MissingRefs(B, index) ==
    {i \in 1..Len(Required(B)) : Required(B)[i] \notin DOMAIN index}

\* C17: missing reference on forward is not fatal.  When RollForward(B) is
\* processed and references of B are not in the UTXO index when they are
\* looked up, the mismatch counter grows by one per such reference, none of
\* them is in the context sent, no consumed-ring entry is written for them,
\* and B is applied (its outputs are in the index unless B spends them) and
\* RollForward(B, context) is sent.
C17_MissingReferenceOnForward ==
    [][enrich_last'.op = "RollForward" =>
          LET B == enrich_last'.block
              index == enrich_last'.mid[db_ref_main]
              ring == enrich_last'.mid[db_ref_consumed_ring]
              missing == BlockConsumes(B) \ DOMAIN index
          IN  /\ enrich_last'.mismatches = Cardinality(MissingRefs(B, index))
              /\ \A k \in missing :
                     /\ k \notin DOMAIN enrich_last'.ctx
                     /\ k \in DOMAIN enrich_last'.unpruned[db_ref_consumed_ring]
                            => /\ k \in DOMAIN ring
                               /\ enrich_last'.unpruned[db_ref_consumed_ring][k] = ring[k]
              /\ \A k \in BlockProduces(B) \ BlockConsumes(B) :
                     k \in DOMAIN utxo_db' /\ utxo_db'[k] = SledTxValue(k)
              /\ enrich_last'.sent = <<EnrichedPayload("RollForward", B, enrich_last'.ctx)>>
              /\ staging' = <<>>]_vars

\* C17: a block with a reference that is not in the index was applied forward
C17_Witness ==
    /\ enrich_last.op = "RollForward"
    /\ MissingRefs(enrich_last.block, enrich_last.mid[db_ref_main]) # {}
    /\ enrich_last.mismatches > 0

\* C18: decode policy skip.  A work() call that skips an undecodable payload
\* sends nothing and leaves the UTXO index and the rings unchanged, and the
\* work() call after it does not receive the skipped message again.
C18_DecodeSkipContinues ==
    [][/\ enrich_last'.op = "Skipped" =>
             /\ enrich_last'.sent = <<>>
             /\ <<utxo_db', produced_ring', consumed_ring'>> =
                    <<utxo_db, produced_ring, consumed_ring>>
       /\ (enrich_last.op = "Skipped" /\ enrich_last' # enrich_last) =>
             /\ staging = <<>>
             /\ enrich_last'.op = "Skipped" => ~enrich_last'.redelivered]_vars

\* C18: a work() call skipped an undecodable payload under the skip policy
C18_Witness ==
    /\ policy = "skip"
    /\ enrich_last.op = "Skipped"
    /\ applied # <<>>

\* the configured cap of a ring: the number of keys prune_tree keeps
RingCap == PruneKeep

RingSize(t) == Cardinality(DOMAIN t)

\* a work() call that ran the pruning pass
Pruned(last) == last.op \in {"RollForward", "RollBack"}

\* C19: ring pruning is triggered only above the cap.  The pruning pass that
\* ends the processing of a block deletes no entry from the produced ring or
\* the consumed ring when that ring holds at most RingCap entries.
C19_PruneOnlyAboveCap ==
    [][Pruned(enrich_last') =>
          /\ RingSize(enrich_last'.unpruned.produced_ring) <= RingCap
                 => produced_ring' = enrich_last'.unpruned.produced_ring
          /\ RingSize(enrich_last'.unpruned.consumed_ring) <= RingCap
                 => consumed_ring' = enrich_last'.unpruned.consumed_ring]_vars

\* C19: a pruning pass ran on a ring that holds entries, no more than the cap
C19_Witness ==
    /\ Pruned(enrich_last)
    /\ RingSize(enrich_last.unpruned.produced_ring) \in 1..RingCap

\* the ring entries the forward path writes for block B: its produced keys, and
\* its consumed keys that were in the index
ProducedEntries(B) == BlockProduces(B)

ConsumedEntries(B, index) == BlockConsumes(B) \cap DOMAIN index

\* C20: ring pruning removes the oldest entries.  After the pruning pass of
\* RollForward(B) each ring holds at most RingCap entries and still holds
\* every entry B wrote, so that a rollback of B finds all its ring entries.
C20_PruneKeepsRecent ==
    [][enrich_last'.op = "RollForward" =>
          LET B == enrich_last'.block
              e == [db |-> utxo_db', produced_ring |-> produced_ring',
                    consumed_ring |-> consumed_ring']
          IN  /\ RingSize(produced_ring') <= RingCap
              /\ RingSize(consumed_ring') <= RingCap
              /\ ProducedEntries(B) \subseteq DOMAIN e[db_ref_produced_ring]
              /\ ConsumedEntries(B, enrich_last'.mid[db_ref_main])
                     \subseteq DOMAIN e[db_ref_consumed_ring]]_vars

\* C20: a block was applied on top of another, so that the rings hold older entries
C20_Witness ==
    /\ enrich_last.op = "RollForward"
    /\ Len(applied) >= 2
    /\ ConsumedEntries(enrich_last.block, enrich_last.mid[db_ref_main]) # {}

\* a work() call of Enrich that received a payload whose bytes decode (or are empty)
ReceivedDecodable(last) == last.op # "none" /\ last.recv.bytes # BadBytes

\* C21: Enrich is a FIFO one-to-one stage.  Every work() call that receives a
\* decodable payload either ends with a storage error, having sent nothing and
\* leaving the message staged for the next call, or sends exactly one payload
\* with the direction and the bytes of the payload received and then commits
\* the input; one call handles one message, so the payloads go out in the
\* order the messages were received.
C21_EnrichOneToOne ==
    [][ReceivedDecodable(enrich_last') =>
          IF enrich_last'.op = "StorageError"
          THEN /\ enrich_last'.sent = <<>>
               /\ staging' = <<enrich_last'.recv>>
          ELSE /\ Len(enrich_last'.sent) = 1
               /\ enrich_last'.sent[1].kind = enrich_last'.recv.kind
               /\ enrich_last'.sent[1].bytes = enrich_last'.recv.bytes
               /\ staging' = <<>>]_vars

\* C21: a RollBack was received and answered with one payload while earlier blocks stay applied
C21_Witness ==
    /\ enrich_last.op = "RollBack"
    /\ Len(enrich_last.sent) = 1
    /\ applied # <<>>

\* C25: rollback context equals forward context.  The context sent with
\* RollBack(B) equals the context that was sent with RollForward(B).
C25_RollbackContextEqualsForward ==
    [][enrich_last'.op = "RollBack" =>
          enrich_last'.ctx = applied[Len(applied)].ctx]_vars

\* C25: a block that spends an output it produces itself was rolled back
C25_Witness ==
    /\ enrich_last.op = "RollBack"
    /\ BlockConsumes(enrich_last.block) \cap BlockProduces(enrich_last.block) # {}

\* C26: the rings are two distinct namespaces.  Writing the consumed-ring
\* entries of a forward block and deleting them on rollback leave the produced
\* ring as it was, and writing or deleting the produced-ring entries leaves
\* the consumed ring as it was.
C26_RingNamespaces ==
    [][/\ enrich_last'.op = "RollForward" =>
             /\ enrich_last'.unpruned.produced_ring = enrich_last'.mid.produced_ring
             /\ enrich_last'.mid.consumed_ring = consumed_ring
       /\ enrich_last'.op = "RollBack" =>
             /\ enrich_last'.unpruned.produced_ring = enrich_last'.mid.produced_ring
             /\ enrich_last'.mid.consumed_ring = consumed_ring]_vars

\* C26: a forward block deleted a key from the index and recorded its prior value
C26_Witness ==
    /\ enrich_last.op = "RollForward"
    /\ ConsumedEntries(enrich_last.block, enrich_last.mid[db_ref_main]) # {}

\* the store the code reads and writes as the consumed ring
ConsumedRingNow == Stores[db_ref_consumed_ring]

\* C27: consumed-ring writes match index deletions.  After RollForward(B) the
\* consumed ring holds k -> v for a key k consumed by B exactly when the index
\* held k -> v just before B's removal batch, and no key consumed by B is in
\* the index; after RollBack(B) every key restored to the index is gone from
\* the consumed ring and carries the value the index held before.
C27_ConsumedRingMatchesDeletions ==
    /\ enrich_last.op = "RollForward" =>
          \A k \in BlockConsumes(enrich_last.block) :
              /\ k \notin DOMAIN utxo_db
              /\ k \in DOMAIN ConsumedRingNow <=> k \in DOMAIN enrich_last.mid[db_ref_main]
              /\ k \in DOMAIN ConsumedRingNow =>
                     ConsumedRingNow[k] = enrich_last.mid[db_ref_main][k]
    /\ enrich_last.op = "RollBack" =>
          \A k \in (BlockConsumes(enrich_last.block) \cap DOMAIN utxo_db)
                     \ DOMAIN enrich_last.mid[db_ref_main] :
              /\ k \notin DOMAIN ConsumedRingNow
              /\ utxo_db[k] = SledTxValue(k)

\* C27: a forward block deleted a key of an earlier block from the index
C27_Witness ==
    /\ enrich_last.op = "RollForward"
    /\ Len(applied) >= 2
    /\ BlockConsumes(enrich_last.block) \cap DOMAIN applied[Len(applied)].pre.db # {}

\* C28: no undo data is lost on a storage error.  A RollForward(B) call that
\* ends with a storage error leaves the message staged, and when the retry
\* succeeds the consumed ring (before the pruning pass) holds the prior value
\* of every key B consumed that was in the index before B, and the context
\* sent holds those keys with those values.
C28_NoUndoDataLost ==
    [][/\ enrich_last'.op = "StorageError" => staging' = <<enrich_last'.recv>>
       /\ (enrich_last'.op = "RollForward" /\ enrich_last'.retried) =>
             LET B == enrich_last'.block
                 pre == applied'[Len(applied')].pre
                 ring == enrich_last'.unpruned[db_ref_consumed_ring]
             IN  \A k \in BlockConsumes(B) \cap DOMAIN pre.db :
                     /\ k \in DOMAIN ring
                     /\ ring[k] = pre.db[k]
                     /\ k \in DOMAIN enrich_last'.ctx
                     /\ enrich_last'.ctx[k] = pre.db[k]]_vars

\* C28: a block that consumes a key of the index was applied on a retry
C28_Witness ==
    /\ enrich_last.op = "RollForward"
    /\ enrich_last.retried
    /\ BlockConsumes(enrich_last.block) \cap DOMAIN applied[Len(applied)].pre.db # {}

\* C33: a decode failure on the rollback path is fatal under policy fail.  A
\* work() call that receives RollBack with non-empty bytes that do not decode,
\* under the fail policy, sends no payload downstream and leaves the input
\* uncommitted.
C33_RollbackDecodeFailureIsFatal ==
    [][(/\ policy = "fail"
        /\ enrich_last' # enrich_last
        /\ enrich_last'.recv = RawPayload("RollBack", BadBytes)) =>
          /\ enrich_last'.sent = <<>>
          /\ staging' = <<enrich_last'.recv>>]_vars

\* C33: under the fail policy Enrich received a RollBack whose bytes do not decode,
\* with blocks applied before it
C33_Witness ==
    /\ policy = "fail"
    /\ enrich_last.op # "none"
    /\ enrich_last.recv = RawPayload("RollBack", BadBytes)
    /\ applied # <<>>

\* the index the lookups of a RollForward(block) call read: the index at the start of
\* the call with every output of the block inserted
LookupSnapshot(t, block) == apply_batch(t, [k \in BlockProduces(block) |-> SledTxValue(k)], {})

\* C31: in every RollForward(B) call, whatever the order in which the parallel lookups
\* complete, the context sent holds each reference of B as the index had it after B's
\* outputs were inserted and before any consumed output was removed; the removal starts
\* from that same index, and the call leaves the index with all of B's mutations applied
C31_LookupsJoinedBetweenInsertAndRemove ==
    [][enrich_last'.op = "RollForward" =>
         LET B == enrich_last'.block
             snapshot == LookupSnapshot(utxo_db, B)
         IN  /\ enrich_last'.mid.db = snapshot
             /\ enrich_last'.ctx =
                    [k \in BlockConsumes(B) \cap DOMAIN snapshot |-> snapshot[k]]
             /\ enrich_last'.sent = <<EnrichedPayload("RollForward", B, enrich_last'.ctx)>>
             /\ enrich_last'.unpruned.db = Del(snapshot, BlockConsumes(B))
             /\ utxo_db' = Del(snapshot, BlockConsumes(B))]_vars

\* a RollForward of a block with several references, one to an output of the block itself
\* and one to an output of an earlier block, all found
C31_Witness ==
    /\ enrich_last.op = "RollForward"
    /\ Len(Required(enrich_last.block)) >= 3
    /\ BlockConsumes(enrich_last.block) \cap BlockProduces(enrich_last.block) # {}
    /\ \E k \in BlockConsumes(enrich_last.block) \ BlockProduces(enrich_last.block) :
           k \in DOMAIN enrich_last.ctx
    /\ DOMAIN enrich_last.ctx = BlockConsumes(enrich_last.block)

(***************************************************************************)
(* Claims about the reducer stage, checked under SpecReducers.             *)
(***************************************************************************)
\* the frame left open at the end of a command stream: <<>> when every
\* BlockStarting has been closed, <<p>> when BlockStarting(p) is open, and
\* <<p, q>> once the framing has been broken
RECURSIVE OpenFrame(_, _)
OpenFrame(cmds, open) ==
    IF cmds = <<>> \/ Len(open) > 1 THEN open
    ELSE LET c == Head(cmds)
         IN  IF c.cmd = "BlockStarting"
             THEN OpenFrame(Tail(cmds), Append(open, c.point))
             ELSE IF c.cmd = "BlockFinished"
             THEN IF open = <<c.point>> THEN OpenFrame(Tail(cmds), <<>>)
                  ELSE <<c.point, c.point>>
             ELSE IF open = <<>> THEN <<Origin, Origin>>
             ELSE OpenFrame(Tail(cmds), open)

\* the block whose point frames the commands of a message
FrameBlock(msg) == IF msg.kind = "RollForward" THEN msg.block ELSE msg.last_valid_block

\* the outputs of every reducer, in registration order, for one block
RECURSIVE AllReducers(_, _, _, _)
AllReducers(r, block, ctx, rollback) ==
    IF r > NReducers THEN <<>>
    ELSE reducer_reduce_block(r, block, ctx, rollback) \o AllReducers(r + 1, block, ctx, rollback)

\* the reducer outputs for the decodable blocks of a rollback batch, from index k
RECURSIVE BatchOutputs(_, _)
BatchOutputs(msg, k) ==
    IF k > Len(msg.blocks) THEN <<>>
    ELSE (IF msg.blocks[k].hash = Malformed THEN <<>>
          ELSE AllReducers(1, msg.blocks[k],
                           IF k \in DOMAIN msg.contexts THEN msg.contexts[k] ELSE default_context,
                           TRUE))
         \o BatchOutputs(msg, k + 1)

ReducerOutputs(msg) ==
    IF msg.kind = "RollForward" THEN AllReducers(1, msg.block, msg.ctx, FALSE)
    ELSE BatchOutputs(msg, 1)

\* C12: command framing.  Every work() call of the reducer stage on a message
\* whose framing block decodes appends BlockStarting(p), then the outputs of
\* every reducer in registration order, then BlockFinished(p) with the same p;
\* and after every call (also one that skipped a block of a rollback batch or
\* met a reducer error) every BlockStarting of the stream has been closed by its
\* BlockFinished, with no other BlockStarting in between.
C12_CommandFraming ==
    [][rlast' # rlast =>
          /\ OpenFrame(commands', <<>>) = <<>>
          /\ FrameBlock(rlast'.msg).hash # Malformed =>
                 Sent(commands, commands') =
                     <<block_starting(FrameBlock(rlast'.msg))>>
                     \o ReducerOutputs(rlast'.msg)
                     \o <<block_finished(FrameBlock(rlast'.msg))>>]_vars

\* C12: a rollback batch with a block the decode policy skips has been processed
C12_Witness ==
    /\ rlast.res = "ok"
    /\ rlast.msg.kind = "RollBack"
    /\ rlast.msg.last_valid_block.hash # Malformed
    /\ \E k \in 1..Len(rlast.msg.blocks) : rlast.msg.blocks[k].hash = Malformed

\* the slot of the last BlockFinished of a command stream, 0 when it has none
RECURSIVE LastFinishedSlot(_)
LastFinishedSlot(out) ==
    IF out = <<>> THEN 0
    ELSE IF out[Len(out)].cmd = "BlockFinished" THEN out[Len(out)].point.slot
    ELSE LastFinishedSlot(SubSeq(out, 1, Len(out) - 1))

HasFinished(out) == \E i \in 1..Len(out) : out[i].cmd = "BlockFinished"

\* C15: cursor monotonicity.  When a work() call sends a BlockFinished whose
\* slot is strictly below the slot of the BlockFinished sent before it, the
\* message it processed is a RollBack, the command carries the point of the
\* message's last valid block, and that slot is below the slot of every block
\* of the batch; a RollForward message never lowers the slot.
C15_CursorMonotonicity ==
    [][\A i \in (Len(commands) + 1)..Len(commands') :
          (/\ commands'[i].cmd = "BlockFinished"
           /\ HasFinished(SubSeq(commands', 1, i - 1))
           /\ commands'[i].point.slot < LastFinishedSlot(SubSeq(commands', 1, i - 1)))
          => /\ rlast'.msg.kind = "RollBack"
             /\ commands'[i] = block_finished(rlast'.msg.last_valid_block)
             /\ \A k \in 1..Len(rlast'.msg.blocks) :
                    commands'[i].point.slot < rlast'.msg.blocks[k].slot]_vars

\* C15: a work() call sent a BlockFinished with a slot below its predecessor's
C15_Witness ==
    \E i \in 2..Len(commands) :
        /\ commands[i].cmd = "BlockFinished"
        /\ HasFinished(SubSeq(commands, 1, i - 1))
        /\ commands[i].point.slot < LastFinishedSlot(SubSeq(commands, 1, i - 1))

\* the reducer calls the claim expects for a message: every reducer, in
\* registration order, on each block of the message that decodes
ExpectedCalls(msg) ==
    IF msg.kind = "RollForward"
    THEN IF msg.block.hash = Malformed THEN <<>>
         ELSE AllReducers(1, msg.block, msg.ctx, FALSE)
    ELSE BatchOutputs(msg, 1)

\* C32: direction is derived from the payload.  A work() call that ends without
\* an error has invoked every reducer with rollback = false on the block of a
\* RollForward payload, and with rollback = true on each block of a RollBack
\* payload with the context at the block's index (the empty context when
\* there is none); every reducer gets the same (block, context, direction).
C32_DirectionFromPayload ==
    [][(rlast' # rlast /\ rlast'.res = "ok") =>
          SelectSeq(Sent(commands, commands'), LAMBDA c : c.cmd = "Reduced")
              = ExpectedCalls(rlast'.msg)]_vars

\* C32: a rollback batch of two blocks that decode, with a context for the first only,
\* has been processed
C32_Witness ==
    /\ rlast.res = "ok"
    /\ rlast.msg.kind = "RollBack"
    /\ rlast.msg.last_valid_block.hash # Malformed
    /\ Len(rlast.msg.blocks) = 2
    /\ Len(rlast.msg.contexts) = 1
    /\ \A k \in 1..2 : rlast.msg.blocks[k].hash # Malformed

(***************************************************************************)
(* Claims about the reducers, checked under SpecReducerFn (C35 under       *)
(* SpecBalanceForward).                                                    *)
(***************************************************************************)
\* an output of the block holds an asset of the configured policy that no
\* resolved input of the block holds (a freshly minted asset)
ProducesFreshAsset(block, ctx) ==
    \E t \in 1..Len(block.txs) : \E i \in 1..Len(block.txs[t].produces) :
        \E a \in Range(block.txs[t].produces[i].assets) :
            /\ a.policy = 1
            /\ \A r \in DOMAIN ctx : \A b \in Range(ctx[r].assets) : b.name # a.name \/ b.policy # 1

\* C13: reducer symmetry for the address-by-asset reducer.  For every block and
\* every sink state, the commands for (B, Forward) followed by the commands for
\* (B, Undo, context of B) leave the sink as it was before the block.
C13_AddressByAssetSymmetry ==
    (rtest.phase = "undo" /\ rtest.reducer = "address_by_asset") => sink = rtest.pre

\* C13: the address-by-asset reducer has run forward and undo on a block that
\* produces an output holding a freshly minted asset
C13_Witness ==
    /\ rtest.phase = "undo"
    /\ rtest.reducer = "address_by_asset"
    /\ ProducesFreshAsset(rtest.block, rtest.ctx)

\* the sum of the deltas of the HashCounter commands of cmds on sink entry k
RECURSIVE DeltaSum(_, _)
DeltaSum(cmds, k) ==
    IF cmds = <<>> THEN 0
    ELSE (IF Head(cmds).cmd = "HashCounter" /\ Head(cmds).key = k THEN Head(cmds).value ELSE 0)
         + DeltaSum(Tail(cmds), k)

\* the value of a counter of the sink (0 when never written)
CounterOf(s, k) == IF k \in DOMAIN s THEN s[k] ELSE 0

\* C14: balance reducer sign flip.  For every HashCounter(key, field, d) the
\* balance reducer emits with direction Forward it emits HashCounter(key, field, -d)
\* with direction Undo, the deltas per (key, field) over Forward then Undo sum to
\* zero, and the balance counters of the sink are back at their pre-block values.
C14_BalanceSignFlip ==
    (rtest.phase = "undo" /\ rtest.reducer = "multi_asset_balances") =>
        \A i \in 1..Len(rtest.fwd) :
            rtest.fwd[i].cmd = "HashCounter" =>
                LET c == rtest.fwd[i]
                IN  /\ \E j \in 1..Len(rtest.sent) :
                           rtest.sent[j] = HashCounter(c.key, 0 - c.value)
                    /\ DeltaSum(rtest.fwd \o rtest.sent, c.key) = 0
                    /\ CounterOf(sink, c.key) = CounterOf(rtest.pre, c.key)

\* C14: the balance reducer has run forward and undo on a block that spends a
\* resolved input and produces an output
C14_Witness ==
    /\ rtest.phase = "undo"
    /\ rtest.reducer = "multi_asset_balances"
    /\ DOMAIN rtest.ctx # {}
    /\ rtest.block.txs[1].produces # <<>>
    /\ \E i \in 1..Len(rtest.fwd) : rtest.fwd[i].cmd = "HashCounter" /\ rtest.fwd[i].value # 0


\* the commands of a run of the reducer of rtest on its block and context when the maps
\* iterate in the order ord
RunCommands(rollback, ord) ==
    dispatch_reduce_block(rtest.reducer, rtest.block, rtest.ctx, rollback,
                          [rtest.cfg EXCEPT !.ord = ord])

\* C34: reducer determinism.  For a fixed (block, context, direction) the balance
\* reducer emits the same commands in the same order on every run: the commands of
\* the run are those of a run of any iteration order of the maps that tally them.
C34_ReducerDeterminism ==
    (rtest.phase \in {"forward", "undo"} /\ rtest.reducer = "multi_asset_balances") =>
        \A ord \in {"asc", "desc"} : rtest.sent = RunCommands(rtest.phase = "undo", ord)

\* C34: the balance reducer has run forward on a block with an output holding several
\* assets
C34_Witness ==
    /\ rtest.phase = "forward"
    /\ rtest.reducer = "multi_asset_balances"
    /\ \E i \in 1..Len(rtest.block.txs[1].produces) :
           Len(rtest.block.txs[1].produces[i].assets) >= 2
    /\ \E i, j \in 1..Len(rtest.sent) :
           /\ i < j
           /\ rtest.sent[i].cmd = "HashCounter" /\ rtest.sent[j].cmd = "SortedSetAdd"


\* the balance movements of a block in direction Forward, as the claim lists them: per
\* transaction the inputs that resolve in the context, then the produced outputs
Movements(block, ctx) ==
    Concat([t \in 1..Len(block.txs) |->
        LET tx == block.txs[t]
        IN  Concat([i \in 1..Len(tx.consumes) |->
                IF tx.consumes[i] \in DOMAIN ctx
                THEN <<[txo |-> ctx[tx.consumes[i]], sign |-> 0 - 1]>>
                ELSE <<>>])
            \o [i \in 1..Len(tx.produces) |-> [txo |-> tx.produces[i], sign |-> 1]]])

\* the quantity of the asset of fingerprint f an output holds
HeldQuantity(txo, f) ==
    SumOver([i \in 1..Len(txo.assets) |-> txo.assets[i].quantity],
            {i \in 1..Len(txo.assets) :
                 asset_fingerprint(txo.assets[i].policy, txo.assets[i].name) = f})

\* the counters of one movement: lovelace and one per asset held, on the key of the address
MovementCounters(m) ==
    {HashCounter(SinkKey("wallet", m.txo.address, 0), m.sign * m.txo.lovelace)}
    \cup {HashCounter(SinkKey("wallet", m.txo.address, asset_fingerprint(a.policy, a.name)),
                      m.sign * HeldQuantity(m.txo, asset_fingerprint(a.policy, a.name))) :
              a \in Range(m.txo.assets)}

\* the commands W are the counters of the movements ms, movement after movement
RECURSIVE TalliesInOrder(_, _)
TalliesInOrder(W, ms) ==
    IF ms = <<>> THEN W = <<>>
    ELSE LET n == Cardinality(MovementCounters(Head(ms)))
         IN  /\ Len(W) >= n
             /\ Range(SubSeq(W, 1, n)) = MovementCounters(Head(ms))
             /\ TalliesInOrder(SubSeq(W, n + 1, Len(W)), Tail(ms))

IsBalanceCounter(c) == c.cmd = "HashCounter" /\ c.key.ns = "wallet"

IsAdaCounter(c) == IsBalanceCounter(c) /\ c.key.field = 0

\* C35: straight-line balance tally.  In direction Forward the balance counters the
\* reducer emits are, per transaction, first those of every input that resolves in the
\* context (-lovelace and -q per asset on the spender's key), then those of every
\* produced output (+lovelace and +q per asset on the receiver's key); an input that does
\* not resolve emits nothing.  So the ADA deltas are -lovelace per resolved input and
\* then +lovelace per output, in order.
C35_StraightLineTally ==
    (rtest.phase = "forward" /\ rtest.reducer = "multi_asset_balances") =>
        LET ms == Movements(rtest.block, rtest.ctx)
        IN  /\ TalliesInOrder(SelectSeq(rtest.sent, IsBalanceCounter), ms)
            /\ SelectSeq(rtest.sent, IsAdaCounter) =
                   [i \in 1..Len(ms) |->
                       HashCounter(SinkKey("wallet", ms[i].txo.address, 0),
                                   ms[i].sign * ms[i].txo.lovelace)]

\* C35: the balance reducer has run forward on a block of two transactions: the first
\* spends an output of 100 held by address 1, with an asset, to address 2, the second
\* spends another output of address 1.  The ADA deltas of the first transaction are
\* -100 on address 1, then +100 on address 2, and those of the second follow
C35_Witness ==
    /\ rtest.phase = "forward"
    /\ rtest.reducer = "multi_asset_balances"
    /\ Len(rtest.block.txs) = 2
    /\ Ref(1, 0) \in DOMAIN rtest.ctx
    /\ rtest.ctx[Ref(1, 0)].address = 1
    /\ rtest.ctx[Ref(1, 0)].assets # <<>>
    /\ rtest.block.txs[1].consumes = <<Ref(1, 0)>>
    /\ Len(rtest.block.txs[1].produces) = 1
    /\ rtest.block.txs[1].produces[1].address = 2
    /\ SubSeq(SelectSeq(rtest.sent, IsAdaCounter), 1, 2) =
           <<HashCounter(SinkKey("wallet", 1, 0), 0 - 100),
             HashCounter(SinkKey("wallet", 2, 0), 100)>>
    /\ Len(SelectSeq(rtest.sent, IsAdaCounter)) = 4


============================================================================
